---- MODULE Spec2Model ----
(***************************************************************************)
(* Model of the device interface core of BlackHorseSoundDesigner.          *)
(*                                                                         *)
(* DeviceLinkManager (app/device_interface/device_link_manager.py) is      *)
(* modelled as a state machine over its three fields (_lock, _link,        *)
(* _port).  Callers are threads; every thread has a stack of call frames,  *)
(* one frame per manager operation in progress on that thread.             *)
(***************************************************************************)
EXTENDS Integers, Sequences, FiniteSets, TLC

(* ---------------------------------------------------------------------- *)
(* Bounds                                                                  *)
(* ---------------------------------------------------------------------- *)
\* transports opened before new top-level calls stop being issued
MaxOpens == 2
\* deepest nesting of handlers on one thread (event-loop re-entrancy)
MaxDepth == 2
\* longest list of (page, sub, value) triples handed to the payload builder
MaxItems == 3
\* most bytes that follow the header of a sidecar blob handed to unpack_*
MaxBody == 14
\* longest list of bands, rows or names handed to pack_*
MaxRows == 257
\* a float handed to an encoder is stood for by an integer count of 1/Fine of
\* the encoder's quantization step
Fine == 4
\* how far past a domain's ends the encoders' inputs go, in 1/Fine steps
MaxOver == 8
\* most lines of a register file handed to load_simple_regs
MaxLines == 3

Threads == {"t1", "t2"}
NoThread == "none"
\* the Qt GUI thread
UIThread == "t1"

\* self._link is None
None == 0

\* port arguments handed to the manager: "" stands for None / empty
PortArgs == {"", "p1", "p2", " "}
\* (port, auto) pairs: auto is read only when the stripped port is empty
PortAuto == {pa \in PortArgs \X BOOLEAN : pa[2] => (pa[1] \in {"", " "})}
\* what auto_detect_port() can answer: a device name, or nothing
DetectResults == {"", "p1"}
\* values a wrapped fn can return (a payload, or a logical failure)
FnValues == {"v", "False"}

\* DeviceLinkManager (_lock, _link, _port), the transports, the callers
VARIABLES lockOwner, lockCount, link, port, transports, nextId, stack
\* the device journal: latest record per (type, id); the jwrb_with_log
\* calls of the handler that ran last
VARIABLES journal, sendLog
\* one evaluation of a pure function: its name, its input, its result
VARIABLES calc
\* the two diagnostic tabs: each tab's _connected_port and the handler it
\* is in
VARIABLES tabs

linkVars == <<lockOwner, lockCount, link, port, transports, nextId, stack>>
journalVars == <<journal, sendLog>>
vars == <<lockOwner, lockCount, link, port, transports, nextId, stack,
          journal, sendLog, calc, tabs>>

(* ---------------------------------------------------------------------- *)
(* Pure helpers                                                            *)
(* ---------------------------------------------------------------------- *)
\* Python truthiness of `port` (str | None)
Truthy(p) == p # ""

\* (port or "").strip()
Strip(p) == IF p = " " THEN "" ELSE p

PortDiffersNoTruthy(p) == p # port

\* `if port and port != self._port`
PortDiffers(p) == Truthy(p) /\ p # port

\* target after strip and optional auto-detection; "" means RuntimeError
Target(p, auto, det) ==
  IF Strip(p) = "" /\ auto THEN det ELSE Strip(p)

CanAcquireAlways(t) == TRUE

\* threading.RLock: free, or already owned by the calling thread
CanAcquire(t) == lockOwner \in {NoThread, t}

LinkAfterCloseKeepOnError(raised) == IF raised THEN link ELSE None

\* _close_locked resets _link whether or not close() raised
LinkAfterClose(raised) == None

PortAfterClose(raised) == IF LinkAfterClose(raised) = None THEN "" ELSE port

LiveAfterCloseSkipped == transports

\* self._link.close() is called on the current handle (if any)
LiveAfterClose == {x \in transports : x.id # link}

CaughtAlways(f) == TRUE

\* the try block of run / run_if_idle covers only the first fn(link)
Caught(f) == f.calls = 1

(* ---------------------------------------------------------------------- *)
(* Call frames                                                             *)
(* ---------------------------------------------------------------------- *)
NewFrame(op, p, a, r, fn) ==
  [op |-> op, port |-> p, auto |-> a, retry |-> r, fn |-> fn,
   pc |-> "acquire", calls |-> 0, lnk |-> None, lnk1 |-> None,
   outcome |-> "pending", result |-> "", ret |-> "",
   opens |-> 0, closes |-> 0, o0 |-> 0, c0 |-> 0,
   contended |-> FALSE, closeRaised |-> FALSE,
   preLink |-> None, prePort |-> "", preLive |-> {},
   postLink |-> None, postPort |-> "", postLive |-> {}]

Depth(t) == Len(stack[t])
Top(t) == stack[t][Depth(t)]
SetTop(t, f) == [stack EXCEPT ![t] = [@ EXCEPT ![Len(@)] = f]]
Busy(t) == Depth(t) > 0

AllFrames == UNION {{stack[t][i] : i \in 1..Len(stack[t])} : t \in Threads}

Push(t, f) == stack' = [stack EXCEPT ![t] = Append(@, f)]

\* the frame as its caller sees it once the operation has returned or raised
FinishFrame(f, outcome, result, l, p, live) ==
  [f EXCEPT !.pc = "done", !.outcome = outcome, !.result = result,
            !.postLink = l, !.postPort = p, !.postLive = live]

\* fn(link) is entered with handle h
EnterFn(f, h) ==
  [f EXCEPT !.pc = "fn", !.lnk = h, !.calls = @ + 1,
            !.lnk1 = IF f.calls = 0 THEN h ELSE @,
            !.o0 = IF f.calls = 0 THEN f.opens ELSE @,
            !.c0 = IF f.calls = 0 THEN f.closes ELSE @]

ReleaseLockOwnerKept ==
  /\ lockCount' = lockCount - 1
  /\ lockOwner' = lockOwner

\* leaving `with self._lock:` / `self._lock.release()`
ReleaseLock ==
  /\ lockCount' = lockCount - 1
  /\ lockOwner' = IF lockCount <= 1 THEN NoThread ELSE lockOwner

\* outcomes of close() that matter: it raises (swallowed) or it does not
CloseOutcomes == IF link # None THEN BOOLEAN ELSE {FALSE}

\* _close_locked()
CloseLocked(raised) ==
  /\ link' = IF link # None THEN LinkAfterClose(raised) ELSE None
  /\ port' = IF link # None THEN PortAfterClose(raised) ELSE ""
  /\ transports' = LiveAfterClose

\* the frame after it ran _close_locked()
Closed(f, raised) ==
  [f EXCEPT !.closes = IF link # None THEN @ + 1 ELSE @,
            !.closeRaised = @ \/ raised]

(* ---------------------------------------------------------------------- *)
(* Initial state: DeviceLinkManager.__init__, no caller active             *)
(* ---------------------------------------------------------------------- *)
InitLink ==
  /\ lockOwner = NoThread
  /\ lockCount = 0
  /\ link = None
  /\ port = ""
  /\ transports = {}
  /\ nextId = 1
  /\ stack = [t \in Threads |-> << >>]

\* nothing written to the journal yet
InitJournal ==
  /\ journal = << >>
  /\ sendLog = << >>

\* no pure function under evaluation
NoCalc == [f |-> "none", x |-> << >>, done |-> FALSE, y |-> << >>]

\* the tabs of the diagnostic pages
Tabs == {"i2c", "es9821"}

\* I2cScriptTab.__init__ / Es9821Tab.__init__: _connected_port = ""
InitTabs == tabs = [tab \in Tabs |-> [connected_port |-> "", pc |-> "idle"]]

Init ==
  /\ InitLink
  /\ InitJournal
  /\ calc = NoCalc
  /\ InitTabs

(* ---------------------------------------------------------------------- *)
(* Calls into the manager                                                  *)
(* ---------------------------------------------------------------------- *)
CanCall(t) == ~Busy(t) /\ nextId <= MaxOpens

CallConnect(t) ==
  /\ CanCall(t)
  /\ \E pa \in PortAuto :
       Push(t, NewFrame("connect", pa[1], pa[2], TRUE, "plain"))
  /\ UNCHANGED <<lockOwner, lockCount, link, port, transports, nextId>>
  /\ UNCHANGED <<journal, sendLog, calc, tabs>>

CallDisconnect(t) ==
  /\ CanCall(t)
  /\ Push(t, NewFrame("disconnect", "", TRUE, TRUE, "plain"))
  /\ UNCHANGED <<lockOwner, lockCount, link, port, transports, nextId>>
  /\ UNCHANGED <<journal, sendLog, calc, tabs>>

CallRun(t) ==
  /\ CanCall(t)
  /\ \E pa \in PortAuto, r \in BOOLEAN :
       Push(t, NewFrame("run", pa[1], pa[2], r, "plain"))
  /\ UNCHANGED <<lockOwner, lockCount, link, port, transports, nextId>>
  /\ UNCHANGED <<journal, sendLog, calc, tabs>>

CallRunIfIdle(t) ==
  /\ CanCall(t)
  /\ \E pa \in PortAuto, r \in BOOLEAN :
       Push(t, NewFrame("run_if_idle", pa[1], pa[2], r, "plain"))
  /\ UNCHANGED <<lockOwner, lockCount, link, port, transports, nextId>>
  /\ UNCHANGED <<journal, sendLog, calc, tabs>>

\* the frame once the lock is held
Entered(t, f) ==
  [f EXCEPT !.pc = IF f.op = "disconnect" THEN "close" ELSE "ensure",
            !.contended = lockOwner \notin {NoThread, t},
            !.preLink = link, !.prePort = port, !.preLive = transports]

\* `with self._lock:` in connect, disconnect and run (blocking acquire)
Acquire(t) ==
  /\ Busy(t)
  /\ Top(t).pc = "acquire"
  /\ Top(t).op \in {"connect", "disconnect", "run"}
  /\ CanAcquire(t)
  /\ lockOwner' = t
  /\ lockCount' = lockCount + 1
  /\ stack' = SetTop(t, Entered(t, Top(t)))
  /\ UNCHANGED <<link, port, transports, nextId>>
  /\ UNCHANGED <<journal, sendLog, calc, tabs>>

\* `if not self._lock.acquire(blocking=False): return None` in run_if_idle
TryAcquire(t) ==
  /\ Busy(t)
  /\ Top(t).pc = "acquire"
  /\ Top(t).op = "run_if_idle"
  /\ IF CanAcquire(t)
       THEN /\ lockOwner' = t
            /\ lockCount' = lockCount + 1
            /\ stack' = SetTop(t, Entered(t, Top(t)))
       ELSE /\ stack' = SetTop(t, FinishFrame(
                   [Top(t) EXCEPT !.contended = TRUE, !.preLink = link,
                                  !.prePort = port, !.preLive = transports],
                   "absent", "None", link, port, transports))
            /\ UNCHANGED <<lockOwner, lockCount>>
  /\ UNCHANGED <<link, port, transports, nextId>>
  /\ UNCHANGED <<journal, sendLog, calc, tabs>>

\* first half of connect / _ensure_link_locked: the `if self._link is not
\* None` block
Ensure(t) ==
  /\ Busy(t)
  /\ Top(t).pc = "ensure"
  /\ LET f == Top(t) IN
     IF link # None
       THEN IF PortDiffers(f.port)
              THEN \E raised \in CloseOutcomes :
                     /\ CloseLocked(raised)
                     /\ stack' = SetTop(t, [Closed(f, raised) EXCEPT !.pc = "open"])
                     /\ UNCHANGED <<lockOwner, lockCount, nextId>>
              ELSE IF f.op = "connect"
                     THEN /\ stack' = SetTop(t, FinishFrame(f, "returned", port,
                                                           link, port, transports))
                          /\ ReleaseLock
                          /\ UNCHANGED <<link, port, transports, nextId>>
                     ELSE /\ stack' = SetTop(t, EnterFn(f, link))
                          /\ UNCHANGED <<lockOwner, lockCount, link, port,
                                         transports, nextId>>
       ELSE /\ stack' = SetTop(t, [f EXCEPT !.pc = "open"])
            /\ UNCHANGED <<lockOwner, lockCount, link, port, transports, nextId>>
  /\ UNCHANGED <<journal, sendLog, calc, tabs>>

\* second half of connect / _ensure_link_locked: resolve the target and open
\* CdcLink(target); det is auto_detect_port()'s answer, ok whether the
\* constructor succeeds
Open(t) ==
  /\ Busy(t)
  /\ Top(t).pc = "open"
  /\ \E det \in DetectResults, ok \in BOOLEAN :
       LET f == Top(t)
           tg == Target(f.port, f.auto, det)
           h == [id |-> nextId, port |-> tg, by |-> "mgr"]
           g == [f EXCEPT !.opens = @ + 1]
       IN
       IF tg = "" \/ ~ok
         THEN /\ stack' = SetTop(t, FinishFrame(f,
                     IF tg = "" THEN "raisedNoDevice" ELSE "raisedOpen", "",
                     link, port, transports))
              /\ ReleaseLock
              /\ UNCHANGED <<link, port, transports, nextId>>
         ELSE /\ link' = nextId
              /\ port' = tg
              /\ transports' = transports \cup {h}
              /\ nextId' = nextId + 1
              /\ IF f.op = "connect"
                   THEN /\ stack' = SetTop(t, FinishFrame(g, "returned", tg,
                                                         link', port', transports'))
                        /\ ReleaseLock
                   ELSE /\ stack' = SetTop(t, EnterFn(g, nextId))
                        /\ UNCHANGED <<lockOwner, lockCount>>
  /\ UNCHANGED <<journal, sendLog, calc, tabs>>

\* `return fn(link)`: what run / run_if_idle hand back when fn returned v
RunResult(v) == v

\* fn(link) returns a value: run / run_if_idle return it
FnReturn(t) ==
  /\ Busy(t)
  /\ Top(t).pc = "fn"
  /\ \E v \in FnValues :
       stack' = SetTop(t, FinishFrame([Top(t) EXCEPT !.ret = v], "returned",
                                      RunResult(v), link, port, transports))
  /\ ReleaseLock
  /\ UNCHANGED <<link, port, transports, nextId>>
  /\ UNCHANGED <<journal, sendLog, calc, tabs>>

\* fn(link) raises: caught by `except Exception` on the first attempt,
\* propagated to the caller on the second
FnRaise(t) ==
  /\ Busy(t)
  /\ Top(t).pc = "fn"
  /\ IF Caught(Top(t))
       THEN /\ stack' = SetTop(t, [Top(t) EXCEPT !.pc = "except"])
            /\ UNCHANGED <<lockOwner, lockCount>>
       ELSE /\ stack' = SetTop(t, FinishFrame(Top(t), "raisedFn", "",
                                              link, port, transports))
            /\ ReleaseLock
  /\ UNCHANGED <<link, port, transports, nextId>>
  /\ UNCHANGED <<journal, sendLog, calc, tabs>>

\* the except block of run / run_if_idle: close, then re-raise or reconnect
Except(t) ==
  /\ Busy(t)
  /\ Top(t).pc = "except"
  /\ \E raised \in CloseOutcomes :
       LET f == Closed(Top(t), raised) IN
       /\ CloseLocked(raised)
       /\ IF ~f.retry
            THEN /\ stack' = SetTop(t, FinishFrame(f, "raisedFn", "",
                                                   link', port', transports'))
                 /\ ReleaseLock
            ELSE /\ stack' = SetTop(t, [f EXCEPT !.pc = "ensure"])
                 /\ UNCHANGED <<lockOwner, lockCount>>
  /\ UNCHANGED nextId
  /\ UNCHANGED <<journal, sendLog, calc, tabs>>

\* body of disconnect
Disconnect(t) ==
  /\ Busy(t)
  /\ Top(t).pc = "close"
  /\ \E raised \in CloseOutcomes :
       /\ CloseLocked(raised)
       /\ stack' = SetTop(t, FinishFrame(Closed(Top(t), raised), "returned", "",
                                         link', port', transports'))
  /\ ReleaseLock
  /\ UNCHANGED nextId
  /\ UNCHANGED <<journal, sendLog, calc, tabs>>

\* the caller takes the result (or the exception) and goes on
Return(t) ==
  /\ Busy(t)
  /\ Top(t).pc = "done"
  /\ stack' = [stack EXCEPT ![t] = SubSeq(@, 1, Len(@) - 1)]
  /\ UNCHANGED <<lockOwner, lockCount, link, port, transports, nextId>>
  /\ UNCHANGED <<journal, sendLog, calc, tabs>>

\* concurrent threads calling the manager with opaque fns
Next ==
  \E t \in Threads :
    \/ CallConnect(t) \/ CallDisconnect(t) \/ CallRun(t) \/ CallRunIfIdle(t)
    \/ Acquire(t) \/ TryAcquire(t) \/ Ensure(t) \/ Open(t)
    \/ FnReturn(t) \/ FnRaise(t) \/ Except(t) \/ Disconnect(t) \/ Return(t)

Spec == Init /\ [][Next]_vars

(* ---------------------------------------------------------------------- *)
(* The application: one Qt GUI thread.  Handlers run on UIThread from the  *)
(* event loop; a handler that pumps the event loop lets further handlers   *)
(* run on the same thread before it returns.                               *)
(* ---------------------------------------------------------------------- *)
\* QApplication.processEvents() inside _wait_for_fill_result, reached from
\* the erase fn while run holds the lock: delivers every pending event
PumpsAll(f) == f.fn = "erase" /\ f.pc = "fn"

\* modal QMessageBox shown by a send handler while its own link is open:
\* input to the window is blocked, timers still fire
PumpsTimers(f) == f.op = "send" /\ f.pc = "box"

UserEvent(t) ==
  /\ nextId <= MaxOpens
  /\ \/ ~Busy(t)
     \/ Busy(t) /\ Depth(t) < MaxDepth /\ PumpsAll(Top(t))

TimerEvent(t) ==
  /\ nextId <= MaxOpens
  /\ \/ ~Busy(t)
     \/ /\ Busy(t) /\ Depth(t) < MaxDepth
        /\ (PumpsAll(Top(t)) \/ PumpsTimers(Top(t)))

\* GeneralTab._on_erase: run(_erase, port=port, auto=False) once a port was
\* detected; the erase button is disabled while the handler runs
UIErase(t) ==
  /\ UserEvent(t)
  /\ \A i \in 1..Depth(t) : stack[t][i].fn # "erase"
  /\ \E det \in DetectResults :
       /\ det # ""
       /\ Push(t, NewFrame("run", det, FALSE, TRUE, "erase"))
  /\ UNCHANGED <<lockOwner, lockCount, link, port, transports, nextId>>
  /\ UNCHANGED <<journal, sendLog, calc, tabs>>

\* MainWindow._poll_levels on the 20 Hz meter timer
UIPoll(t) ==
  /\ TimerEvent(t)
  /\ Push(t, NewFrame("run_if_idle", "", TRUE, FALSE, "read_levels"))
  /\ UNCHANGED <<lockOwner, lockCount, link, port, transports, nextId>>
  /\ UNCHANGED <<journal, sendLog, calc, tabs>>

\* MainWindow._on_load_from_device: run(_read_all, auto=True)
UILoad(t) ==
  /\ UserEvent(t)
  /\ Push(t, NewFrame("run", "", TRUE, TRUE, "read_all"))
  /\ UNCHANGED <<lockOwner, lockCount, link, port, transports, nextId>>
  /\ UNCHANGED <<journal, sendLog, calc, tabs>>

\* InputMixerTab._on_send is entered with a non-empty item list
UISend(t) ==
  /\ UserEvent(t)
  /\ Push(t, [NewFrame("send", "", TRUE, FALSE, "jwrb") EXCEPT !.pc = "detect"])
  /\ UNCHANGED <<lockOwner, lockCount, link, port, transports, nextId>>
  /\ UNCHANGED <<journal, sendLog, calc, tabs>>

\* port = auto_detect_port(); link = CdcLink(port): the tab opens a transport
\* of its own
SendOpen(t) ==
  /\ Busy(t)
  /\ Top(t).op = "send" /\ Top(t).pc = "detect"
  /\ \E det \in DetectResults, ok \in BOOLEAN :
       LET f == Top(t) IN
       IF det = "" \/ ~ok
         THEN /\ stack' = SetTop(t, FinishFrame(f,
                     IF det = "" THEN "raisedNoDevice" ELSE "raisedOpen", "",
                     link, port, transports))
              /\ UNCHANGED <<transports, nextId>>
         ELSE /\ transports' = transports \cup
                                 {[id |-> nextId, port |-> det, by |-> "tab"]}
              /\ nextId' = nextId + 1
              /\ stack' = SetTop(t, [f EXCEPT !.pc = "io", !.lnk = nextId,
                                              !.opens = @ + 1])
  /\ UNCHANGED <<lockOwner, lockCount, link, port>>
  /\ UNCHANGED <<journal, sendLog, calc, tabs>>

\* link.jwrb_with_log(TYPE_COEFF, ...) on the tab's link, then the message
\* box that reports the result
SendWrite(t) ==
  /\ Busy(t)
  /\ Top(t).op = "send" /\ Top(t).pc = "io"
  /\ \E ok \in BOOLEAN :
       stack' = SetTop(t, [Top(t) EXCEPT !.pc = "box", !.calls = @ + 1,
                              !.result = IF ok THEN "ok" ELSE "failed"])
  /\ UNCHANGED <<lockOwner, lockCount, link, port, transports, nextId>>
  /\ UNCHANGED <<journal, sendLog, calc, tabs>>

\* the box is dismissed; sidecar write; finally: link.close()
SendClose(t) ==
  /\ Busy(t)
  /\ Top(t).op = "send" /\ Top(t).pc = "box"
  /\ transports' = {x \in transports : x.id # Top(t).lnk}
  /\ stack' = SetTop(t, FinishFrame([Top(t) EXCEPT !.closes = @ + 1],
                                   "returned", Top(t).result,
                                   link, port, transports'))
  /\ UNCHANGED <<lockOwner, lockCount, link, port, nextId>>
  /\ UNCHANGED <<journal, sendLog, calc, tabs>>

NextUI ==
  \/ UIErase(UIThread) \/ UIPoll(UIThread) \/ UILoad(UIThread)
  \/ UISend(UIThread)
  \/ Acquire(UIThread) \/ TryAcquire(UIThread) \/ Ensure(UIThread)
  \/ Open(UIThread) \/ FnReturn(UIThread) \/ FnRaise(UIThread)
  \/ Except(UIThread) \/ Return(UIThread)
  \/ SendOpen(UIThread) \/ SendWrite(UIThread) \/ SendClose(UIThread)

SpecUI == Init /\ [][NextUI]_vars

(* ---------------------------------------------------------------------- *)
(* The I2C script tab and the ES9821 tab: both hold the process-wide       *)
(* manager and keep their own _connected_port.  Their handlers run on the  *)
(* UI thread, one at a time.                                               *)
(* ---------------------------------------------------------------------- *)
\* devices the port combo's current item can name
ComboPorts == {"p1", "p2"}

\* no handler of either tab is in progress
TabsIdle == \A tab \in Tabs : tabs[tab].pc = "idle"

\* self._link_mgr.connect(port=dev, auto=False)
ConnectFrame(dev) == NewFrame("connect", dev, FALSE, TRUE, "plain")
\* self._link_mgr.disconnect()
DisconnectFrame == NewFrame("disconnect", "", TRUE, TRUE, "plain")
\* self._link_mgr.run(fn, port=self._connected_port, auto=False)
RunFrame(cp) == NewFrame("run", cp, FALSE, TRUE, "plain")

\* whether the handler has something to run once the link is ensured: the
\* script tab returns when the script holds no command
HasCmds(tab) == IF tab = "i2c" THEN BOOLEAN ELSE {TRUE}

\* _connected_port after the manager call of a handler came back
PortAfter(cp, pc, f) ==
  IF pc \in {"connect", "ensure"}
    THEN IF f.outcome = "returned" THEN f.result ELSE ""
    ELSE IF pc = "disconnect" THEN "" ELSE cp

\* _on_connect: the Connect / Disconnect button (the combo holds a device)
OnConnect(tab) ==
  /\ TabsIdle
  /\ CanCall(UIThread)
  /\ \E dev \in ComboPorts :
       stack' = [stack EXCEPT ![UIThread] =
                   Append(@, IF tabs[tab].connected_port = ""
                               THEN ConnectFrame(dev) ELSE DisconnectFrame)]
  /\ tabs' = [tabs EXCEPT ![tab].pc =
                IF tabs[tab].connected_port = "" THEN "connect" ELSE "disconnect"]
  /\ UNCHANGED <<lockOwner, lockCount, link, port, transports, nextId>>
  /\ UNCHANGED <<journal, sendLog, calc>>

\* _on_run / _on_read_all up to the first manager call: _ensure_link
\* returns at once when _connected_port is set, else it connects
OnRun(tab) ==
  /\ TabsIdle
  /\ CanCall(UIThread)
  /\ \E dev \in ComboPorts :
       stack' = [stack EXCEPT ![UIThread] =
                   Append(@, IF tabs[tab].connected_port = ""
                               THEN ConnectFrame(dev)
                               ELSE RunFrame(tabs[tab].connected_port))]
  /\ tabs' = [tabs EXCEPT ![tab].pc =
                IF tabs[tab].connected_port = "" THEN "ensure" ELSE "run"]
  /\ UNCHANGED <<lockOwner, lockCount, link, port, transports, nextId>>
  /\ UNCHANGED <<journal, sendLog, calc>>

\* the manager call of a handler returned or raised: the handler records
\* the port, and _on_run / _on_read_all go on to run after _ensure_link
TabResume(tab) ==
  /\ tabs[tab].pc # "idle"
  /\ Busy(UIThread)
  /\ Top(UIThread).pc = "done"
  /\ \E cmds \in HasCmds(tab) :
       LET f == Top(UIThread)
           pc == tabs[tab].pc
           cp == PortAfter(tabs[tab].connected_port, pc, f)
           goes == pc = "ensure" /\ cp # "" /\ cmds
           rest == SubSeq(stack[UIThread], 1, Len(stack[UIThread]) - 1)
       IN /\ stack' = [stack EXCEPT ![UIThread] =
                         IF goes THEN Append(rest, RunFrame(cp)) ELSE rest]
          /\ tabs' = [tabs EXCEPT ![tab] =
                        [connected_port |-> cp,
                         pc |-> IF goes THEN "run" ELSE "idle"]]
  /\ UNCHANGED <<lockOwner, lockCount, link, port, transports, nextId>>
  /\ UNCHANGED <<journal, sendLog, calc>>

NextTabs ==
  \/ \E tab \in Tabs : OnConnect(tab)
  \/ \E tab \in Tabs : OnRun(tab)
  \/ \E tab \in Tabs : TabResume(tab)
  \/ Acquire(UIThread) \/ Ensure(UIThread) \/ Open(UIThread)
  \/ FnReturn(UIThread) \/ FnRaise(UIThread) \/ Except(UIThread)
  \/ Disconnect(UIThread)

SpecTabs == Init /\ [][NextTabs]_vars

(* ---------------------------------------------------------------------- *)
(* A user thread and a periodic poller, under fair scheduling: every step  *)
(* of an operation in progress is eventually taken, every fn terminates,   *)
(* and a thread waiting for the lock gets it if the lock is free again and *)
(* again (the poller leaves a timer period between two polls).  Whether a  *)
(* caller issues a further call is left open.                              *)
(* ---------------------------------------------------------------------- *)
UserThread == "t1"
PollThread == "t2"

\* the periodic meter poll: run_if_idle(_read_levels, auto=True, retry=False)
CallPoll(t) ==
  /\ CanCall(t)
  /\ Push(t, NewFrame("run_if_idle", "", TRUE, FALSE, "read_levels"))
  /\ UNCHANGED <<lockOwner, lockCount, link, port, transports, nextId>>
  /\ UNCHANGED <<journal, sendLog, calc, tabs>>

NextLive ==
  \/ CallConnect(UserThread) \/ CallDisconnect(UserThread)
  \/ CallRun(UserThread) \/ CallPoll(PollThread)
  \/ \E t \in Threads :
       \/ Acquire(t) \/ TryAcquire(t) \/ Ensure(t) \/ Open(t)
       \/ FnReturn(t) \/ FnRaise(t) \/ Except(t) \/ Disconnect(t) \/ Return(t)

FairLive ==
  \A t \in Threads :
    /\ SF_vars(Acquire(t))
    /\ WF_vars(TryAcquire(t))
    /\ WF_vars(Ensure(t))
    /\ WF_vars(Open(t))
    /\ WF_vars(FnReturn(t) \/ FnRaise(t))
    /\ WF_vars(Except(t))
    /\ WF_vars(Disconnect(t))
    /\ WF_vars(Return(t))

SpecLive == Init /\ [][NextLive]_vars /\ FairLive

(* ---------------------------------------------------------------------- *)
(* The COEFF payload built by the send handlers from (page, sub, value)    *)
(* triples                                                                 *)
(* ---------------------------------------------------------------------- *)
\* payload.append(0x4A): the i2c bus address byte
BusAddr == 74
\* payload.append(0xFD): the page-select marker
PageMarker == 253
\* cur_page = None
NoPage == -1

\* (v >> 8k) & 0xFF
ByteOf(v, k) == (v \div (2 ^ (8 * k))) % 256

\* 0x80 | (sub_i & 0x7F)
SubByte(sub) == 128 + (sub % 128)

\* page_i & 0xFF
PageByte(page) == page % 256

PageDiffersAlways(page, cur) == TRUE

\* `if page_i != cur_page`
PageDiffers(page, cur) == page # cur

\* one pass of `for page_i, sub_i, val_u32 in items` over the rest of the list
RECURSIVE PayloadLoop(_, _, _)
PayloadLoop(items, cur, payload) ==
  IF items = << >> THEN payload
  ELSE LET page_i == Head(items)[1]
           sub_i == Head(items)[2]
           val_u32 == Head(items)[3]
           sel == IF PageDiffers(page_i, cur)
                    THEN <<PageMarker, PageByte(page_i)>> ELSE << >>
           cur2 == IF PageDiffers(page_i, cur) THEN page_i ELSE cur
       IN PayloadLoop(Tail(items), cur2,
                      payload \o sel \o <<SubByte(sub_i), ByteOf(val_u32, 3),
                                           ByteOf(val_u32, 2), ByteOf(val_u32, 1),
                                           ByteOf(val_u32, 0)>>)

\* payload = bytearray(); payload.append(0x4A); cur_page = None; the loop
BuildPayload(items) == PayloadLoop(items, NoPage, <<BusAddr>>)

(* ---------------------------------------------------------------------- *)
(* Record registry (record_ids.py) and the journal types written outside   *)
(* of it                                                                   *)
(* ---------------------------------------------------------------------- *)
\* 0x52, 0x53
TYPE_COEFF == 82
TYPE_APP_STATE == 83
\* 0x05 .. 0x08
REC_XO_A == 5
REC_XO_B == 6
REC_PHASE == 7
REC_OUT_GAINS == 8
\* 0x09 .. 0x0C
REC_EQ_L == 9
REC_INTGAIN_L == 10
REC_EQ_R == 11
REC_INTGAIN_R == 12
\* 0x10, 0x11
REC_INPUT_MIXER == 16
RecMixGainReused == REC_INPUT_MIXER

REC_MIX_GAIN == 17
\* 0x90 .. 0x94
REC_STATE_EQ == 144
REC_STATE_XO == 145
REC_STATE_MIXER == 146
REC_STATE_MIXGAIN == 147
REC_STATE_XBAR == 148

\* the table: one entry per reserved name
Registry ==
  <<[name |-> "REC_XO_A", typ |-> TYPE_COEFF, id |-> REC_XO_A],
    [name |-> "REC_XO_B", typ |-> TYPE_COEFF, id |-> REC_XO_B],
    [name |-> "REC_PHASE", typ |-> TYPE_COEFF, id |-> REC_PHASE],
    [name |-> "REC_OUT_GAINS", typ |-> TYPE_COEFF, id |-> REC_OUT_GAINS],
    [name |-> "REC_EQ_L", typ |-> TYPE_COEFF, id |-> REC_EQ_L],
    [name |-> "REC_INTGAIN_L", typ |-> TYPE_COEFF, id |-> REC_INTGAIN_L],
    [name |-> "REC_EQ_R", typ |-> TYPE_COEFF, id |-> REC_EQ_R],
    [name |-> "REC_INTGAIN_R", typ |-> TYPE_COEFF, id |-> REC_INTGAIN_R],
    [name |-> "REC_INPUT_MIXER", typ |-> TYPE_COEFF, id |-> REC_INPUT_MIXER],
    [name |-> "REC_MIX_GAIN", typ |-> TYPE_COEFF, id |-> REC_MIX_GAIN],
    [name |-> "REC_STATE_EQ", typ |-> TYPE_APP_STATE, id |-> REC_STATE_EQ],
    [name |-> "REC_STATE_XO", typ |-> TYPE_APP_STATE, id |-> REC_STATE_XO],
    [name |-> "REC_STATE_MIXER", typ |-> TYPE_APP_STATE, id |-> REC_STATE_MIXER],
    [name |-> "REC_STATE_MIXGAIN", typ |-> TYPE_APP_STATE,
     id |-> REC_STATE_MIXGAIN],
    [name |-> "REC_STATE_XBAR", typ |-> TYPE_APP_STATE, id |-> REC_STATE_XBAR]>>

\* the (type, id) pairs the registry reserves
Registered == {<<Registry[i].typ, Registry[i].id>> : i \in 1..Len(Registry)}

RegistryNames == {Registry[i].name : i \in 1..Len(Registry)}

\* `from .record_ids import <name>`: the (type, id) a feature gets for a name
Lookup(name) ==
  LET e == CHOOSE r \in {Registry[i] : i \in 1..Len(Registry)} : r.name = name
  IN <<e.typ, e.id>>

\* program_tas3251.main: send_record(link, 0x51, 0x01 / 0x02, ...)
TYPE_PROGRAM == 81
ID_PROGRAM == 1
ID_TUNING == 2

(* ---------------------------------------------------------------------- *)
(* State sidecar (state_sidecar.py).  A float handed to an encoder is stood *)
(* for by the integer count of 1/Fine of the code's step: x * 128 * Fine   *)
(* for a linear gain, dB * 4 * Fine for a gain in dB, Hz * Fine for a      *)
(* frequency, (r / 3) * 255 * Fine for a ripple, and for a Q the place     *)
(* y * 255 * Fine of log10(q) between log10(0.1) and log10(10).            *)
(* ---------------------------------------------------------------------- *)
\* round(n / d) as Python rounds: to the nearest integer, a tie to the even
RoundHalfEven(n, d) ==
  LET q == n \div d
      r == n % d
  IN IF 2 * r < d THEN q
     ELSE IF 2 * r > d THEN q + 1
     ELSE IF q % 2 = 0 THEN q ELSE q + 1

\* int(round(v)) of a float given in 1/Fine steps
Round(x) == RoundHalfEven(x, Fine)

ClampfOff(x, lo, hi) == x

\* _clampf
Clampf(x, lo, hi) == IF x < lo THEN lo ELSE IF x > hi THEN hi ELSE x

\* _lin_to_i16_q9_7: round, clamp to int16, two's complement, low byte first
LinToI16Q97(x) ==
  LET s == Round(x)
      c == IF s < -32768 THEN -32768 ELSE IF s > 32767 THEN 32767 ELSE s
      u == c % 65536
  IN <<u % 256, u \div 256>>

\* values.get(name, 0.0)
ValueOf(values, name) == IF name \in DOMAIN values THEN values[name] ELSE 0

\* out.append(len(order) & 0xFF)
Q97Count(order) == Len(order) % 256

\* pack_q97_values
PackQ97Values(order, values) ==
  <<1, Q97Count(order)>> \o
  [j \in 1..(2 * Len(order)) |->
     LinToI16Q97(ValueOf(values, order[(j + 1) \div 2]))[((j - 1) % 2) + 1]]

\* data[i] of a bytes object, 0-based; IndexError past the end
IndexError == -1
At(data, i) == IF 0 <= i /\ i < Len(data) THEN data[i + 1] ELSE IndexError

Max(a, b) == IF a >= b THEN a ELSE b
Min(a, b) == IF a <= b THEN a ELSE b

\* _u16_to_int
U16ToInt(b0, b1) == b1 * 256 + b0

I8Q25ToDbUnsigned(b) == b

\* _i8_q25_to_db, in quarter dB
I8Q25ToDb(b) == IF b < 128 THEN b ELSE b - 256

\* _i16_q9_7_to_lin, in 1/128
I16Q97ToLin(b0, b1) ==
  LET v == b1 * 256 + b0 IN IF v >= 32768 THEN v - 65536 ELSE v

EQ_TYPE_TEXTS ==
  <<"Peak (Peaking EQ)", "Low Shelf", "High Shelf", "Low-pass", "High-pass",
    "Band-pass (const peak)", "Notch", "All-pass (Unity)",
    "All-pass 1st (Phase)", "All-pass 2nd (Phase)">>

XO_MODE_TEXTS ==
  <<"All-pass", "Phase shift 1st", "Phase shift 2nd", "Low-pass", "High-pass",
    "Peaking EQ">>

XO_TOPO_TEXTS ==
  <<"Butterworth 1st", "Butterworth 2nd", "Bessel", "Chebyshev I",
    "Variable Q 2nd">>

InTableOrLast(code, texts) == 0 <= code /\ code <= Len(texts)

\* `0 <= code < len(TEXTS)`
InTable(code, texts) == 0 <= code /\ code < Len(texts)

\* TEXTS[code] if 0 <= code < len(TEXTS) else TEXTS[0]; TEXTS[len] would
\* raise IndexError
TextOf(code, texts) ==
  IF InTable(code, texts)
    THEN (IF code < Len(texts) THEN texts[code + 1] ELSE "IndexError")
    ELSE texts[1]

EqBandFitsPartly(idx, data) == idx < Len(data)

\* `if idx + 5 > len(data): break`
EqBandFits(idx, data) == ~(idx + 5 > Len(data))

\* one band of unpack_eq_state read at idx; q stays the u8 code
EqBand(data, idx) ==
  [type |-> TextOf(At(data, idx), EQ_TYPE_TEXTS),
   f0 |-> U16ToInt(At(data, idx + 1), At(data, idx + 2)),
   q |-> At(data, idx + 3),
   gain_db |-> I8Q25ToDb(At(data, idx + 4))]

\* the passes a `for _ in range(n)` makes before its `break`: pass i runs
\* when the passes before it ran and its own bounds test lets it through
Passes(n, fits) ==
  CHOOSE k \in 0..n :
    /\ \A i \in 0..(k - 1) : fits[i]
    /\ k = n \/ ~fits[k]

\* `for _ in range(n)` of unpack_eq_state from idx; hi is the highest index
\* read
EqLoop(data, n, idx, hi) ==
  LET fits == [i \in 0..n |-> EqBandFits(idx + 5 * i, data)]
      k == Passes(n, fits)
  IN [eq |-> [i \in 1..k |-> EqBand(data, idx + 5 * (i - 1))],
      hi |-> IF k = 0 THEN hi ELSE Max(hi, idx + 5 * k - 1)]

\* unpack_eq_state
UnpackEqState(data) ==
  IF Len(data) < 4 THEN [fs |-> 48000, eq |-> << >>, hi |-> -1]
  ELSE LET r == EqLoop(data, At(data, 3), 4, 3)
       IN [fs |-> U16ToInt(At(data, 1), At(data, 2)), eq |-> r.eq, hi |-> r.hi]

\* `if idx + 6 > len(data): break`
XoRowFits(idx, data) == ~(idx + 6 > Len(data))

\* one row of _read_rows read at idx; q and ripple stay the u8 codes
XoRow(data, idx) ==
  [mode |-> TextOf(At(data, idx), XO_MODE_TEXTS),
   topology |-> TextOf(At(data, idx + 1), XO_TOPO_TEXTS),
   f0 |-> U16ToInt(At(data, idx + 2), At(data, idx + 3)),
   q |-> At(data, idx + 4),
   ripple |-> At(data, idx + 5)]

\* _read_rows(n), from the shared idx
ReadRows(data, n, idx, hi) ==
  LET fits == [i \in 0..n |-> XoRowFits(idx + 6 * i, data)]
      k == Passes(n, fits)
  IN [rows |-> [i \in 1..k |-> XoRow(data, idx + 6 * (i - 1))],
      idx |-> idx + 6 * k,
      hi |-> IF k = 0 THEN hi ELSE Max(hi, idx + 6 * k - 1)]

\* `if idx + 5 <= len(data)`
MiscFits(idx, data) == idx + 5 <= Len(data)

\* the trailer: flags, two delays, two gains
XoMisc(data, idx) ==
  [invertA |-> At(data, idx) % 2 = 1,
   invertB |-> (At(data, idx) \div 2) % 2 = 1,
   delayA |-> At(data, idx + 1), delayB |-> At(data, idx + 2),
   gainA_db |-> I8Q25ToDb(At(data, idx + 3)),
   gainB_db |-> I8Q25ToDb(At(data, idx + 4))]

\* unpack_xo_state; misc = {} is the empty function
UnpackXoState(data) ==
  IF Len(data) < 6
    THEN [fs |-> 48000, A |-> << >>, B |-> << >>, misc |-> << >>, hi |-> -1]
    ELSE LET a == ReadRows(data, At(data, 3), 5, 4)
             b == ReadRows(data, At(data, 4), a.idx, a.hi)
         IN [fs |-> U16ToInt(At(data, 1), At(data, 2)),
             A |-> a.rows, B |-> b.rows,
             misc |-> IF MiscFits(b.idx, data) THEN XoMisc(data, b.idx)
                      ELSE << >>,
             hi |-> IF MiscFits(b.idx, data) THEN Max(b.hi, b.idx + 4)
                    ELSE b.hi]

\* `if idx + 2 > len(data): break`
Q97ValueFits(idx, data) == ~(idx + 2 > Len(data))

\* `for i in range(min(n, len(order)))` of unpack_q97_values; out maps the
\* first names of order to their values
Q97Loop(data, order, n, hi) ==
  LET fits == [i \in 0..n |-> Q97ValueFits(2 + 2 * i, data)]
      k == Passes(n, fits)
  IN [out |-> [i \in 1..k |->
                 <<order[i], I16Q97ToLin(At(data, 2 * i), At(data, 2 * i + 1))>>],
      hi |-> IF k = 0 THEN hi ELSE Max(hi, 2 * k + 1)]

\* unpack_q97_values; the dict is kept as the list of its (name, value) items
UnpackQ97Values(data, order) ==
  IF Len(data) < 2 THEN [out |-> << >>, hi |-> -1]
  ELSE Q97Loop(data, order, Min(At(data, 1), Len(order)), 1)

\* _int_to_u16_le
IntToU16LE(v) == <<(v % 65536) % 256, (v % 65536) \div 256>>

\* _f0_to_u16_hz
F0ToU16Hz(f0) == Max(0, Min(65535, Round(f0)))

\* _db_to_i8_q25 with lo = -24.0, hi = 24.0
DbToI8Q25(db) ==
  LET d == Clampf(db, -24 * 4 * Fine, 24 * 4 * Fine)
      v == Round(d)
      w == IF v < -128 THEN -128 ELSE IF v > 127 THEN 127 ELSE v
  IN w % 256

\* _q_to_u8 with q_min = 0.1, q_max = 10.0: q clamped, then its place y in
\* log space clamped to [0, 1], then int(round(y * 255.0))
QToU8(q) ==
  LET qc == Clampf(q, 0, 255 * Fine)
  IN Round(Clampf(qc, 0, 255 * Fine))

\* _ripple_to_u8
RippleToU8(rip) == Round(Clampf(rip, 0, 255 * Fine)) % 256

\* TEXTS.index(t), ValueError when t is not in the list
ValueError == -1
IndexIn(texts, t) ==
  IF \E i \in 1..Len(texts) : texts[i] = t
    THEN (CHOOSE i \in 1..Len(texts) :
            texts[i] = t /\ \A j \in 1..(i - 1) : texts[j] # t) - 1
    ELSE ValueError

CodeOrRaise(texts, t) == IndexIn(texts, t) % 256

\* try: code = TEXTS.index(t) / except ValueError: code = 0
CodeOf(texts, t) ==
  IF IndexIn(texts, t) = ValueError THEN 0 ELSE IndexIn(texts, t)

\* the five bytes pack_eq_state writes for one band
EqBandBytes(ent) ==
  <<CodeOf(EQ_TYPE_TEXTS, ent.type) % 256>> \o IntToU16LE(F0ToU16Hz(ent.f0))
    \o <<QToU8(ent.q) % 256, DbToI8Q25(ent.gain_db) % 256>>

\* n = min(255, len(eq_items))
EqCount(items) == Min(255, Len(items))

\* pack_eq_state: `for i in range(n)`
PackEqState(items, fs) ==
  <<1>> \o IntToU16LE(fs) \o <<EqCount(items) % 256>> \o
  [j \in 1..(5 * EqCount(items)) |->
     EqBandBytes(items[((j - 1) \div 5) + 1])[((j - 1) % 5) + 1]]

\* _row of pack_xo_state
XoRowBytes(ent) ==
  <<CodeOf(XO_MODE_TEXTS, ent.mode) % 256,
    CodeOf(XO_TOPO_TEXTS, ent.topology) % 256>>
    \o IntToU16LE(F0ToU16Hz(ent.f0)) \o <<QToU8(ent.q) % 256, RippleToU8(ent.ripple) % 256>>

\* min(255, len(A)) & 0xFF
XoCount(rows) == Min(255, Len(rows)) % 256

\* `for ent in A: out.extend(_row(ent))`: every row, whatever the count said
XoRowsBytes(rows) ==
  [j \in 1..(6 * Len(rows)) |->
     XoRowBytes(rows[((j - 1) \div 6) + 1])[((j - 1) % 6) + 1]]

\* the trailer of pack_xo_state
XoMiscBytes(misc) ==
  <<(IF misc.invertA THEN 1 ELSE 0) + 2 * (IF misc.invertB THEN 1 ELSE 0),
    misc.delayA % 256, misc.delayB % 256,
    DbToI8Q25(misc.gainA_db) % 256, DbToI8Q25(misc.gainB_db) % 256>>

\* pack_xo_state
PackXoState(xo, fs) ==
  <<1>> \o IntToU16LE(fs) \o <<XoCount(xo.A), XoCount(xo.B)>>
    \o XoRowsBytes(xo.A) \o XoRowsBytes(xo.B) \o XoMiscBytes(xo.misc)

(* ---------------------------------------------------------------------- *)
(* The send handlers and the journal.  Each handler reads the reference    *)
(* map, collects the triples of its section(s), opens a link of its own    *)
(* and issues its jwrb_with_log calls; the device keeps the latest payload *)
(* per (type, id).                                                         *)
(* ---------------------------------------------------------------------- *)
\* a reference map: rows of shabrang_tas3251.jsonl under their section title
RefMap ==
  <<[sec |-> "INPUT MIXER", name |-> "LefttoLeft", page |-> 1, sub |-> 2],
    [sec |-> "MIX/GAIN ADJUST", name |-> "LefttoSub", page |-> 1, sub |-> 3],
    [sec |-> "CROSS OVER BQs", name |-> "BQ1B0", page |-> 1, sub |-> 2],
    [sec |-> "SUB CROSS OVER BQs", name |-> "CH-SubBQ1B0", page |-> 2,
     sub |-> 2],
    [sec |-> "PHASE OPTIMIZER", name |-> "DelayLeft", page |-> 2, sub |-> 3],
    [sec |-> "OUTPUT CROSS BAR", name |-> "DigitalLeftfromLeft", page |-> 2,
     sub |-> 2],
    [sec |-> "OUTPUT CROSS BAR", name |-> "AnalogLeftfromLeft", page |-> 2,
     sub |-> 3]>>

Sections == {RefMap[i].sec : i \in 1..Len(RefMap)}

RECURSIVE Rows(_, _)
Rows(m, secs) ==
  IF m = << >> THEN << >>
  ELSE (IF Head(m).sec \in secs THEN <<Head(m)>> ELSE << >>)
         \o Rows(Tail(m), secs)

\* the map files a handler may find, as far as the sections it reads go:
\* any set of these sections present
MapsOver(secs) == {Rows(RefMap, present) : present \in SUBSET secs}

\* widget values at the moment of the send: the 32-bit word the targets
\* hold and the same gain as a Q9.7 number
UIStates == {[word |-> 287454020, lin |-> 128]}

\* names each tab looks for in its section
MixerNames == {"LefttoLeft", "RighttoLeft", "LefttoRight", "RighttoRight"}
MixerOrder == <<"LefttoLeft", "RighttoLeft", "LefttoRight", "RighttoRight">>
MixGainNames == {"LefttoSub", "RighttoSub", "SubMixScratchL", "SubMixScratchR",
                 "BassMonoLeft", "BassMonoRight", "BassMonoSub"}
MixGainOrder == <<"LefttoSub", "RighttoSub", "SubMixScratchL", "SubMixScratchR",
                  "BassMonoLeft", "BassMonoRight", "BassMonoSub">>
XbarNames == {"DigitalLeftfromLeft", "DigitalLeftfromRight", "DigitalLeftfromSub",
              "DigitalRightfromLeft", "DigitalRightfromRight",
              "DigitalRightfromSub", "AnalogLeftfromLeft", "AnalogLeftfromRight",
              "AnalogLeftfromSub", "AnalogRightfromLeft", "AnalogRightfromRight",
              "AnalogRightfromSub"}
XoANames == {"BQ1B0", "BQ1B1", "BQ1B2", "BQ1A1", "BQ1A2"}
XoBNames == {"CH-SubBQ1B0", "CH-SubBQ1B1", "CH-SubBQ1B2", "CH-SubBQ1A1",
             "CH-SubBQ1A2"}
XoDelayNames == {"DelayLeft", "DelayRight", "DelaySub"}
XoGainNames == {"AnalogLeftfromLeft", "AnalogRightfromSub"}

\* the loop over the map lines: rows of section sec whose name the tab
\* knows become (page, sub, value) triples, in map order
RECURSIVE Collect(_, _, _, _)
Collect(m, sec, names, word) ==
  IF m = << >> THEN << >>
  ELSE (IF Head(m).sec = sec /\ Head(m).name \in names
          THEN <<<<Head(m).page, Head(m).sub, word>>>> ELSE << >>)
         \o Collect(Tail(m), sec, names, word)

NothingToSendNever(items) == FALSE

\* `if not items`
NothingToSend(items) == items = << >>

\* one jwrb_with_log call: n is the number of triples behind a COEFF payload
Write(by, typ, id, payload, n, ok) ==
  [by |-> by, typ |-> typ, id |-> id, payload |-> payload, n |-> n, ok |-> ok]

CoeffWriteProgramType(by, id, items, ok) ==
  Write(by, TYPE_PROGRAM, id, BuildPayload(items), Len(items), ok)

\* link.jwrb_with_log(TYPE_COEFF, <id>, bytes(payload))
CoeffWrite(by, id, items, ok) ==
  Write(by, TYPE_COEFF, id, BuildPayload(items), Len(items), ok)

\* the device stores an accepted record as the latest of its (type, id)
Put(j, w) ==
  IF w.ok
    THEN [k \in DOMAIN j \cup {<<w.typ, w.id>>} |->
            IF k = <<w.typ, w.id>> THEN [by |-> w.by, payload |-> w.payload]
            ELSE j[k]]
    ELSE j

RECURSIVE Store(_, _)
Store(j, ws) == IF ws = << >> THEN j ELSE Store(Put(j, Head(ws)), Tail(ws))

\* what the device does during one send: no port is detected or the link
\* cannot be opened, or it answers the jwrb calls with OK, or with an error
DeviceAnswers == {"none", "accepts", "rejects"}

\* the call as the log keeps it
Logged(w) == [by |-> w.by, typ |-> w.typ, id |-> w.id, n |-> w.n]

\* the handler issued the calls ws, in order
Issue(ws) ==
  /\ journal' = Store(journal, ws)
  /\ sendLog' = [i \in 1..Len(ws) |-> Logged(ws[i])]

\* what the Input Mixer tab can show when Send is pressed
MixerUIStates == UIStates \cup {[word |-> 4660, lin |-> -64]}

\* the COEFF payload and the sidecar payload of the Input Mixer for a UI
\* state
MixerItems(m, ui) == Collect(m, "INPUT MIXER", MixerNames, ui.word)
MixerSide(ui) == PackQ97Values(MixerOrder, [n \in MixerNames |-> ui.lin])

\* InputMixerTab._on_send: the sidecar write follows the COEFF write
\* whatever its ok was; the device answers each jwrb on its own
SendInputMixer ==
  /\ \E m \in MapsOver({"INPUT MIXER"}), ui \in MixerUIStates,
        dev \in DeviceAnswers, sideOk \in BOOLEAN :
       LET items == MixerItems(m, ui)
           side == MixerSide(ui)
       IN Issue(IF NothingToSend(items) \/ dev = "none" THEN << >>
                ELSE <<CoeffWrite("mixer", REC_INPUT_MIXER, items, dev = "accepts"),
                       Write("mixer", TYPE_APP_STATE, REC_STATE_MIXER, side, 0,
                             sideOk)>>)
  /\ UNCHANGED linkVars
  /\ UNCHANGED <<calc, tabs>>

\* MixGainAdjustTab._on_send
SendMixGain ==
  /\ \E m \in MapsOver({"MIX/GAIN ADJUST"}), ui \in UIStates,
        dev \in DeviceAnswers, sideOk \in BOOLEAN :
       LET items == Collect(m, "MIX/GAIN ADJUST", MixGainNames, ui.word)
           side == PackQ97Values(MixGainOrder,
                                 [n \in MixGainNames |-> ui.lin])
       IN Issue(IF NothingToSend(items) \/ dev = "none" THEN << >>
                ELSE <<CoeffWrite("mixgain", REC_MIX_GAIN, items, dev = "accepts"),
                       Write("mixgain", TYPE_APP_STATE, REC_STATE_MIXGAIN, side,
                             0, sideOk)>>)
  /\ UNCHANGED linkVars
  /\ UNCHANGED <<calc, tabs>>

\* OutputCrossbarTab._on_send
SendOutputCrossbar ==
  /\ \E m \in MapsOver({"OUTPUT CROSS BAR"}), ui \in UIStates,
        dev \in DeviceAnswers :
       LET items == Collect(m, "OUTPUT CROSS BAR", XbarNames, ui.word)
       IN Issue(IF NothingToSend(items) \/ dev = "none" THEN << >>
                ELSE <<CoeffWrite("xbar", REC_OUT_GAINS, items, dev = "accepts")>>)
  /\ UNCHANGED linkVars
  /\ UNCHANGED <<calc, tabs>>

\* the loop over the four sections: `if not items: continue`, else one write
RECURSIVE SectionWrites(_, _)
SectionWrites(secs, ok) ==
  IF secs = << >> THEN << >>
  ELSE (IF NothingToSend(Head(secs).items) THEN << >>
        ELSE <<CoeffWrite("xo", Head(secs).id, Head(secs).items, ok)>>)
         \o SectionWrites(Tail(secs), ok)

\* CrossoverTab._on_send_crossover
SendCrossover ==
  /\ \E m \in MapsOver({"CROSS OVER BQs", "SUB CROSS OVER BQs",
                        "PHASE OPTIMIZER", "OUTPUT CROSS BAR"}),
        ui \in UIStates, dev \in DeviceAnswers :
       LET items_A == Collect(m, "CROSS OVER BQs", XoANames, ui.word)
           items_B == Collect(m, "SUB CROSS OVER BQs", XoBNames, ui.word)
           items_D == Collect(m, "PHASE OPTIMIZER", XoDelayNames, ui.word)
           items_G == Collect(m, "OUTPUT CROSS BAR", XoGainNames, ui.word)
           secs == <<[id |-> REC_XO_A, items |-> items_A],
                     [id |-> REC_XO_B, items |-> items_B],
                     [id |-> REC_PHASE, items |-> items_D],
                     [id |-> REC_OUT_GAINS, items |-> items_G]>>
       IN Issue(IF \/ /\ NothingToSend(items_A) /\ NothingToSend(items_B)
                       /\ NothingToSend(items_D) /\ NothingToSend(items_G)
                    \/ dev = "none"
                  THEN << >> ELSE SectionWrites(secs, dev = "accepts"))
  /\ UNCHANGED linkVars
  /\ UNCHANGED <<calc, tabs>>

SeqsUpTo(S, n) == UNION {[1..k -> S] : k \in 0..n}

\* (register, value) pairs of the two JSONL files of program_tas3251
RegPairs == {<<1, 255>>}

\* build_payload_tas3251
RECURSIVE ProgramPayloadLoop(_, _)
ProgramPayloadLoop(pairs, out) ==
  IF pairs = << >> THEN out
  ELSE ProgramPayloadLoop(Tail(pairs),
                          out \o <<Head(pairs)[1] % 256, Head(pairs)[2] % 256>>)

BuildPayloadTas3251(pairs, addr) == ProgramPayloadLoop(pairs, <<addr % 128>>)

\* program_tas3251.main: both files hold pairs (else it returns 3), then two
\* send_record calls
SendProgram ==
  /\ \E prog, tune \in SeqsUpTo(RegPairs, 1), dev \in DeviceAnswers :
       Issue(IF prog = << >> \/ tune = << >> \/ dev = "none" THEN << >>
             ELSE <<Write("prog", TYPE_PROGRAM, ID_PROGRAM,
                          BuildPayloadTas3251(prog, BusAddr), 0,
                          dev = "accepts"),
                    Write("prog", TYPE_PROGRAM, ID_TUNING,
                          BuildPayloadTas3251(tune, BusAddr), 0,
                          dev = "accepts")>>)
  /\ UNCHANGED linkVars
  /\ UNCHANGED <<calc, tabs>>

NextSend ==
  \/ SendInputMixer \/ SendMixGain \/ SendOutputCrossbar \/ SendCrossover
  \/ SendProgram

SpecSend == Init /\ [][NextSend]_vars

(* ---------------------------------------------------------------------- *)
(* Load From Device (main_window.py).  The read of the five sidecar        *)
(* records through the manager is taken as one step: the device answers    *)
(* every jrdb, or the run raises.  The EQ tab is not part of the sources;  *)
(* its record is read and never written here.                              *)
(* ---------------------------------------------------------------------- *)
\* link.jrdb(TYPE_APP_STATE, id): the latest record of the key, or nothing
Jrdb(j, typ, id) == IF <<typ, id>> \in DOMAIN j THEN j[<<typ, id>>].payload ELSE << >>

\* list(self.xbar_tab.NAMES)
XbarOrder ==
  <<"DigitalLeftfromLeft", "DigitalLeftfromRight", "DigitalLeftfromSub",
    "DigitalRightfromLeft", "DigitalRightfromRight", "DigitalRightfromSub",
    "AnalogLeftfromLeft", "AnalogLeftfromRight", "AnalogLeftfromSub",
    "AnalogRightfromLeft", "AnalogRightfromRight", "AnalogRightfromSub">>

\* `if data:` then `if vals:` of the three Q9.7 features
Q97Loaded(data, order) ==
  IF data = << >> THEN << >> ELSE UnpackQ97Values(data, order).out

\* what _on_load_from_device applies to the tabs, and the features it names
\* in 'Loaded: ...'
LoadResult(j) ==
  LET eq == Jrdb(j, TYPE_APP_STATE, REC_STATE_EQ)
      xo == Jrdb(j, TYPE_APP_STATE, REC_STATE_XO)
      mixer == Q97Loaded(Jrdb(j, TYPE_APP_STATE, REC_STATE_MIXER), MixerOrder)
      mix_gain ==
        Q97Loaded(Jrdb(j, TYPE_APP_STATE, REC_STATE_MIXGAIN), MixGainOrder)
      xbar == Q97Loaded(Jrdb(j, TYPE_APP_STATE, REC_STATE_XBAR), XbarOrder)
  IN [applied |-> (IF eq # << >> THEN {"EQ"} ELSE {})
                    \cup (IF xo # << >> THEN {"XO"} ELSE {})
                    \cup (IF mixer # << >> THEN {"Input Mixer"} ELSE {})
                    \cup (IF mix_gain # << >> THEN {"Mix/Gain Adjust"} ELSE {})
                    \cup (IF xbar # << >> THEN {"Output Cross Bar"} ELSE {}),
      mixer |-> mixer, mix_gain |-> mix_gain]

NothingLoaded == [applied |-> {}, mixer |-> << >>, mix_gain |-> << >>]

\* MainWindow._on_load_from_device
LoadFromDevice ==
  /\ \E dev \in {"raises", "answers"} :
       calc' = [f |-> "load", x |-> <<dev>>, done |-> TRUE,
                y |-> IF dev = "answers" THEN LoadResult(journal)
                      ELSE NothingLoaded]
  /\ UNCHANGED linkVars
  /\ UNCHANGED <<journalVars, tabs>>

\* sends of three of the features the loader reads, and the load
NextLoad ==
  \/ SendInputMixer \/ SendOutputCrossbar \/ SendCrossover
  \/ LoadFromDevice

SpecLoad == Init /\ [][NextLoad]_vars

\* the reader of a COEFF payload: a marker byte announces a page byte, a
\* byte with its high bit set starts a 5-byte register unit of the page
\* selected last; a byte that is neither, or a cut unit, ends the parse
RECURSIVE ParseLoop(_, _, _, _)
ParseLoop(payload, i, cur, out) ==
  IF i > Len(payload) THEN out
  ELSE IF payload[i] = PageMarker
    THEN IF i + 1 <= Len(payload)
           THEN ParseLoop(payload, i + 2, payload[i + 1], out)
           ELSE out
  ELSE IF payload[i] >= 128 /\ i + 4 <= Len(payload)
    THEN ParseLoop(payload, i + 5, cur,
                   Append(out, <<cur, payload[i] - 128,
                                 ((payload[i + 1] * 256 + payload[i + 2]) * 256
                                    + payload[i + 3]) * 256 + payload[i + 4]>>))
  ELSE out

\* the triples read back from a payload, past its bus-address byte
ParsePayload(payload) == ParseLoop(payload, 2, NoPage, << >>)

(* ---------------------------------------------------------------------- *)
(* Pure functions evaluated on inputs drawn from bounded sets              *)
(* ---------------------------------------------------------------------- *)
\* pages, sub-addresses and values of the triples (0x11223344, 0x7FAABBCC:
\* values stay below 2^31, the largest integer of the checker)
Pages == {0, 1, 2}
Subs == {2, 3}
Vals == {287454020, 2141895628}
ItemLists == SeqsUpTo(Pages \X Subs \X Vals, MaxItems)

ToDo(f, x) == [f |-> f, x |-> x, done |-> FALSE, y |-> << >>]

\* triples at the upper ends of the ranges: page 0xFF, sub-addresses 0x7D
\* and 0x7F
EdgeItemLists == SeqsUpTo({255} \X {125, 127} \X {287454020}, MaxItems)

PayloadInputs ==
  {ToDo("payload", items) : items \in ItemLists \cup EdgeItemLists}

\* a send handler builds the payload of its item list
ApplyBuildPayload ==
  /\ calc.f = "payload" /\ ~calc.done
  /\ calc' = [calc EXCEPT !.done = TRUE, !.y = BuildPayload(calc.x)]
  /\ UNCHANGED linkVars
  /\ UNCHANGED <<journalVars, tabs>>

\* two features import one reserved name each
RegistryInputs == {ToDo("registry", <<a, b>>) : a, b \in RegistryNames}

ApplyLookup ==
  /\ calc.f = "registry" /\ ~calc.done
  /\ calc' = [calc EXCEPT !.done = TRUE,
                          !.y = <<Lookup(calc.x[1]), Lookup(calc.x[2])>>]
  /\ UNCHANGED linkVars
  /\ UNCHANGED <<journalVars, tabs>>

\* bytes after a header: a fixed pattern from a seed, cut anywhere
Seeds == {0, 219}
Body(seed) == [i \in 1..MaxBody |-> (seed + 37 * i) % 256]
Prefixes(data) == {SubSeq(data, 1, k) : k \in 0..Len(data)}

\* count bytes a header may claim
Counts == {0, 1, 2, 3, 5, 255}

\* blobs read back from the journal: well-formed, truncated or corrupted
EqBlobs ==
  UNION {Prefixes(<<1, 128, 187, n>> \o Body(seed)) :
           n \in Counts, seed \in Seeds}
XoBlobs ==
  UNION {Prefixes(<<1, 128, 187, a, b>> \o Body(seed)) :
           a \in {0, 1, 2, 3}, b \in {0, 1, 2, 3}, seed \in Seeds}
Q97Blobs ==
  UNION {Prefixes(<<1, n>> \o Body(seed)) : n \in Counts, seed \in Seeds}

\* whole blobs of one band, or one A and one B row, with every byte as code
Bytes == 0..255
EqCodeBlobs == {<<1, 128, 187, 1, c, 232, 3, 128, 252>> : c \in Bytes}
XoCodeBlobs ==
  {<<1, 128, 187, 1, 1, c, 255 - c, 208, 7, 128, 42,
     255 - c, c, 208, 7, 128, 42, 1, 3, 0, 232, 24>> : c \in Bytes}

UnpackEqInputs == {ToDo("unpack_eq", data) : data \in EqBlobs \cup EqCodeBlobs}
UnpackXoInputs == {ToDo("unpack_xo", data) : data \in XoBlobs \cup XoCodeBlobs}
UnpackQ97Inputs ==
  {ToDo("unpack_q97", [data |-> data, order |-> order]) :
     data \in Q97Blobs, order \in {MixerOrder, MixGainOrder}}

\* MainWindow._on_load_from_device decodes the records it read
ApplyUnpackEq ==
  /\ calc.f = "unpack_eq" /\ ~calc.done
  /\ calc' = [calc EXCEPT !.done = TRUE, !.y = UnpackEqState(calc.x)]
  /\ UNCHANGED linkVars
  /\ UNCHANGED <<journalVars, tabs>>

ApplyUnpackXo ==
  /\ calc.f = "unpack_xo" /\ ~calc.done
  /\ calc' = [calc EXCEPT !.done = TRUE, !.y = UnpackXoState(calc.x)]
  /\ UNCHANGED linkVars
  /\ UNCHANGED <<journalVars, tabs>>

ApplyUnpackQ97 ==
  /\ calc.f = "unpack_q97" /\ ~calc.done
  /\ calc' = [calc EXCEPT !.done = TRUE,
                          !.y = UnpackQ97Values(calc.x.data, calc.x.order)]
  /\ UNCHANGED linkVars
  /\ UNCHANGED <<journalVars, tabs>>

\* lists to pack: short ones and ones around the 255 a count byte can hold
Lens == {0, 1, 2, 255, 256, MaxRows}

EqItem(i) ==
  [type |-> EQ_TYPE_TEXTS[(i % Len(EQ_TYPE_TEXTS)) + 1], f0 |-> 20 + 250 * i,
   q |-> (7 * i) % 256, gain_db |-> (i % 200) - 100]
XoItem(i) ==
  [mode |-> XO_MODE_TEXTS[(i % Len(XO_MODE_TEXTS)) + 1],
   topology |-> XO_TOPO_TEXTS[(i % Len(XO_TOPO_TEXTS)) + 1],
   f0 |-> 20 + 250 * i, q |-> (7 * i) % 256, ripple |-> (11 * i) % 256]
XoMiscs ==
  {[invertA |-> TRUE, invertB |-> FALSE, delayA |-> 3, delayB |-> 0,
    gainA_db |-> -6, gainB_db |-> 100]}
OrderOf(n) == [i \in 1..n |-> ToString(i)]

\* sample rates the tabs can be set to, and delays in samples
SampleRates == {44100, 48000, 96000}
Delays == {0, 1, 45}

\* texts no enumeration holds
OtherTexts == {"", "Brickwall"}
PackEqInputs ==
  {ToDo("pack_eq", [items |-> [i \in 1..n |-> EqItem(i)], fs |-> 48000]) :
     n \in Lens}
  \cup
  {ToDo("pack_eq", [items |-> <<EqItem(1), [EqItem(2) EXCEPT !.type = t]>>,
                    fs |-> 48000]) : t \in OtherTexts}
  \cup
  {ToDo("pack_eq", [items |-> <<EqItem(1)>>, fs |-> fs]) : fs \in SampleRates}
PackXoInputs ==
  {ToDo("pack_xo", [A |-> [i \in 1..a |-> XoItem(i)],
                    B |-> [i \in 1..b |-> XoItem(i + 1)],
                    misc |-> misc, fs |-> 48000]) :
     a \in Lens, b \in {0, 2, 256}, misc \in XoMiscs}
  \cup
  {ToDo("pack_xo", [A |-> <<XoItem(1), [XoItem(2) EXCEPT !.mode = m]>>,
                    B |-> <<[XoItem(3) EXCEPT !.topology = t]>>,
                    misc |-> misc, fs |-> 48000]) :
     m \in OtherTexts, t \in OtherTexts, misc \in XoMiscs}
  \cup
  {ToDo("pack_xo", [A |-> <<XoItem(1)>>, B |-> <<XoItem(2)>>,
                    misc |-> [misc EXCEPT !.delayA = d, !.delayB = 255 + d],
                    fs |-> fs]) :
     fs \in SampleRates, d \in Delays, misc \in XoMiscs}
PackQ97Inputs ==
  {ToDo("pack_q97", [order |-> OrderOf(n),
                     values |-> [nm \in {ToString(i) : i \in 1..n} |-> lin]]) :
     n \in Lens, lin \in {128, -64, 40000 * Fine}}

\* the tabs pack their state before the sidecar write
ApplyPackEq ==
  /\ calc.f = "pack_eq" /\ ~calc.done
  /\ calc' = [calc EXCEPT !.done = TRUE,
                          !.y = PackEqState(calc.x.items, calc.x.fs)]
  /\ UNCHANGED linkVars
  /\ UNCHANGED <<journalVars, tabs>>

ApplyPackXo ==
  /\ calc.f = "pack_xo" /\ ~calc.done
  /\ calc' = [calc EXCEPT !.done = TRUE, !.y = PackXoState(calc.x, calc.x.fs)]
  /\ UNCHANGED linkVars
  /\ UNCHANGED <<journalVars, tabs>>

ApplyPackQ97 ==
  /\ calc.f = "pack_q97" /\ ~calc.done
  /\ calc' = [calc EXCEPT !.done = TRUE,
                          !.y = PackQ97Values(calc.x.order, calc.x.values)]
  /\ UNCHANGED linkVars
  /\ UNCHANGED <<journalVars, tabs>>

(* ---------------------------------------------------------------------- *)
(* Biquad registers: the crossover send path (crossover_tab.py) and the    *)
(* decode path (tools/extract_ppc3_eq_cfg.py).  A coefficient is stood for *)
(* by [s, k]: s + k / Fine steps of 2^-n, n the fractional bits of its     *)
(* register.  A 32-bit word is its four bytes, high byte first.            *)
(* ---------------------------------------------------------------------- *)
\* -x of a float
Negated(x) ==
  IF x.k = 0 THEN [s |-> -x.s, k |-> 0] ELSE [s |-> -x.s - 1, k |-> Fine - x.k]

\* round(x * 2^n), a tie to the even
RoundSteps(x) ==
  IF 2 * x.k < Fine THEN x.s
  ELSE IF 2 * x.k > Fine THEN x.s + 1
  ELSE IF x.s % 2 = 0 THEN x.s ELSE x.s + 1

\* q_to_hex_twos(x, n): clamp(round(x * 2^n), -2^31, 2^31 - 1) as 32-bit
\* two's complement
QToHexTwos(x) ==
  LET r == RoundSteps(x)
      c == IF r < -2147483647 - 1 THEN -2147483647 - 1
           ELSE IF r > 2147483647 THEN 2147483647 ELSE r
  IN <<(c \div 16777216) % 256, (c \div 65536) % 256, (c \div 256) % 256,
       c % 256>>

\* the fractional bits n that _u32_from hands to q_to_hex_twos for a tag
FracBits(tag) == IF tag \in {"B1", "A1"} THEN 30 ELSE 31

\* _u32_from(tag, vals) of _on_send_crossover
U32From(tag, vals) ==
  CASE tag = "B0" -> QToHexTwos(vals.b0)
    [] tag = "B1" -> QToHexTwos(vals.b1)
    [] tag = "B2" -> QToHexTwos(vals.b2)
    [] tag = "A1" -> QToHexTwos(Negated(vals.a1))
    [] tag = "A2" -> QToHexTwos(Negated(vals.a2))

\* _to_s32
ToS32(u) ==
  IF u[1] >= 128
    THEN (u[1] - 256) * 16777216 + u[2] * 65536 + u[3] * 256 + u[4]
    ELSE u[1] * 16777216 + u[2] * 65536 + u[3] * 256 + u[4]

MathFromRegSame(v) == v

\* a1 = -A1, a2 = -A2
MathFromReg(v) == -v

\* _decode_coeffs: each coefficient as s steps of 2^-n
DecodeCoeffs(section) ==
  [b0 |-> [s |-> ToS32(section.B0), n |-> 31],
   b1 |-> [s |-> ToS32(section.B1), n |-> 30],
   b2 |-> [s |-> ToS32(section.B2), n |-> 31],
   a1 |-> [s |-> MathFromReg(ToS32(section.A1)), n |-> 30],
   a2 |-> [s |-> MathFromReg(ToS32(section.A2)), n |-> 31]]

Tags == {"B0", "B1", "B2", "A1", "A2"}

\* coefficients: 0, one step, a quarter and a half of a register's range and
\* its last steps, of both signs, with every fraction of a step
CoeffSteps == {0, 1, 2, 536870912, 1073741824, 2147483645}
CoeffInputs ==
  {ToDo("coeff", [s |-> sign * m, k |-> k]) :
     sign \in {-1, 1}, m \in CoeffSteps, k \in 0..(Fine - 1)}

\* send a biquad whose five coefficients are x, read the registers back
ApplyCoeff ==
  /\ calc.f = "coeff" /\ ~calc.done
  /\ LET vals == [b0 |-> calc.x, b1 |-> calc.x, b2 |-> calc.x,
                  a1 |-> calc.x, a2 |-> calc.x]
         section == [tag \in Tags |-> U32From(tag, vals)]
     IN calc' = [calc EXCEPT !.done = TRUE,
                             !.y = [section |-> section,
                                    dec |-> DecodeCoeffs(section)]]
  /\ UNCHANGED linkVars
  /\ UNCHANGED <<journalVars, tabs>>

(* ---------------------------------------------------------------------- *)
(* load_simple_regs (program_tas3251.py).  A line of the file is stood for *)
(* by what it is once stripped: blank, a // comment, text that is no JSON, *)
(* a meta row, or a register row with its addr and value.                  *)
(* ---------------------------------------------------------------------- *)
Line(kind, addr, val) == [kind |-> kind, addr |-> addr, val |-> val]
FileLines ==
  {Line(k, 0, 0) : k \in {"blank", "comment", "bad", "meta"}}
    \cup {Line("row", 1, 255), Line("row", 2, 7)}

\* obj before the first json.loads succeeded
Unbound == Line("unbound", 0, 0)

\* one pass of `for ln in f`; a line that is no JSON is reported and the
\* pass goes on with the obj the pass before left
RECURSIVE LoadLoop(_, _, _, _)
LoadLoop(lines, i, obj, pairs) ==
  IF i > Len(lines) THEN [pairs |-> pairs, raised |-> FALSE]
  ELSE LET ln == lines[i]
           got == IF ln.kind = "bad" THEN obj ELSE ln
       IN IF ln.kind \in {"blank", "comment"}
            THEN LoadLoop(lines, i + 1, obj, pairs)
          ELSE IF got = Unbound
            THEN [pairs |-> pairs, raised |-> TRUE]
          ELSE IF got.kind = "meta"
            THEN LoadLoop(lines, i + 1, got, pairs)
          ELSE LoadLoop(lines, i + 1, got, Append(pairs, <<got.addr, got.val>>))

\* load_simple_regs
LoadSimpleRegs(lines) == LoadLoop(lines, 1, Unbound, << >>)

LoadInputs == {ToDo("load_regs", lines) : lines \in SeqsUpTo(FileLines, MaxLines)}

ApplyLoadSimpleRegs ==
  /\ calc.f = "load_regs" /\ ~calc.done
  /\ calc' = [calc EXCEPT !.done = TRUE, !.y = LoadSimpleRegs(calc.x)]
  /\ UNCHANGED linkVars
  /\ UNCHANGED <<journalVars, tabs>>

\* the scalar encoders and the ends of their domains, in 1/Fine steps
Formats == {"db", "lin", "f0", "ripple", "q"}
Lo(fmt) ==
  CASE fmt = "db" -> -24 * 4 * Fine
    [] fmt = "lin" -> -32768 * Fine
    [] OTHER -> 0
Hi(fmt) ==
  CASE fmt = "db" -> 24 * 4 * Fine
    [] fmt = "lin" -> 32767 * Fine
    [] fmt = "f0" -> 65535 * Fine
    [] OTHER -> 255 * Fine

\* inputs at, inside and past the ends of a domain, around 0, far away, and
\* at four places in between
Near(fmt) ==
  UNION {{Lo(fmt) - k, Lo(fmt) + k, Hi(fmt) - k, Hi(fmt) + k, -k, k} :
           k \in 0..MaxOver}
    \cup {Lo(fmt) - 1000000, Hi(fmt) + 1000000}
    \cup {Lo(fmt) + ((Hi(fmt) - Lo(fmt)) * j) \div 5 + k :
            j \in 1..4, k \in 0..MaxOver}
EncodeInputs ==
  UNION {{ToDo("encode", <<fmt, x>>) : x \in Near(fmt)} : fmt \in Formats}

\* the code an encoder gives, as the list of bytes (the u16 for a frequency)
Encode(fmt, x) ==
  CASE fmt = "db" -> <<DbToI8Q25(x)>>
    [] fmt = "lin" -> LinToI16Q97(x)
    [] fmt = "f0" -> <<F0ToU16Hz(x)>>
    [] fmt = "ripple" -> <<RippleToU8(x)>>
    [] fmt = "q" -> <<QToU8(x)>>

ApplyEncode ==
  /\ calc.f = "encode" /\ ~calc.done
  /\ calc' = [calc EXCEPT !.done = TRUE, !.y = Encode(calc.x[1], calc.x[2])]
  /\ UNCHANGED linkVars
  /\ UNCHANGED <<journalVars, tabs>>

InitCodec ==
  /\ InitLink
  /\ InitJournal
  /\ InitTabs
  /\ \/ calc \in PayloadInputs
     \/ calc \in RegistryInputs
     \/ calc \in UnpackEqInputs
     \/ calc \in UnpackXoInputs
     \/ calc \in UnpackQ97Inputs
     \/ calc \in PackEqInputs
     \/ calc \in PackXoInputs
     \/ calc \in PackQ97Inputs
     \/ calc \in EncodeInputs
     \/ calc \in CoeffInputs
     \/ calc \in LoadInputs

NextCodec ==
  \/ ApplyBuildPayload
  \/ ApplyLookup
  \/ ApplyUnpackEq \/ ApplyUnpackXo \/ ApplyUnpackQ97
  \/ ApplyPackEq \/ ApplyPackXo \/ ApplyPackQ97
  \/ ApplyEncode
  \/ ApplyCoeff
  \/ ApplyLoadSimpleRegs

SpecCodec == InitCodec /\ [][NextCodec]_vars

(* ---------------------------------------------------------------------- *)
(* Observers                                                               *)
(* ---------------------------------------------------------------------- *)
\* is_connected() evaluated on a link value
IsConnected(l) == l # None

\* current_port() evaluated on a (link, port) pair
CurrentPort(l, p) == IF l # None THEN p ELSE ""

DoneFrames == {f \in AllFrames : f.pc = "done"}

\* a frame between the acquisition and the release of the lock
InCritical(f) == f.pc \in {"ensure", "open", "fn", "except", "close"}

HoldsCritical(t) == \E i \in 1..Len(stack[t]) : InCritical(stack[t][i])

\* ids of the transports on which close() has not been called
LiveIds == {x.id : x \in transports}

(* ---------------------------------------------------------------------- *)
(* Claims                                                                  *)
(* ---------------------------------------------------------------------- *)

\* C1: with any threads calling connect, disconnect, run and run_if_idle
\* concurrently, at most one thread is between acquiring and releasing the
\* lock (opening, closing or running fn), and that thread owns the lock.
C1_MutualExclusion ==
  /\ \A t1, t2 \in Threads :
       t1 # t2 => ~(HoldsCritical(t1) /\ HoldsCritical(t2))
  /\ \A t \in Threads : HoldsCritical(t) => lockOwner = t /\ lockCount >= 1

\* one thread is inside fn while the other waits for the lock in run
C1_Witness ==
  \E t1, t2 \in Threads :
    /\ t1 # t2
    /\ Busy(t1) /\ Top(t1).pc = "fn"
    /\ Busy(t2) /\ Top(t2).pc = "acquire" /\ Top(t2).op = "run"

\* C2: the lock is held for the whole body of run and admits no second
\* operation: while a fn is executing nothing else invokes a fn, and the
\* transport it was given is not closed, before it returns or raises.
C2_NoOperationInsideFn ==
  \A t \in Threads : \A i \in 1..Len(stack[t]) :
    stack[t][i].pc = "fn" =>
      /\ stack[t][i].lnk \in LiveIds
      /\ \A j \in (i + 1)..Len(stack[t]) :
           stack[t][j].op \in {"run", "run_if_idle"} =>
             stack[t][j].calls = 0 /\ stack[t][j].closes = 0
      /\ \A u \in Threads \ {t} : ~HoldsCritical(u)

\* C3: a run_if_idle that finds the lock held by a different thread returns
\* None at once: fn is not invoked, nothing is opened or closed, and the
\* link state is as the holder left it.
C3_RunIfIdleContended ==
  \A f \in AllFrames :
    f.op = "run_if_idle" /\ f.contended =>
      /\ f.pc = "done"
      /\ f.outcome = "absent" /\ f.result = "None"
      /\ f.calls = 0 /\ f.opens = 0 /\ f.closes = 0
      /\ f.postLink = f.preLink /\ f.postPort = f.prePort
      /\ f.postLive = f.preLive

\* a run_if_idle came back empty-handed while the other thread had the
\* link open and was inside its fn
C3_Witness ==
  \E t1, t2 \in Threads :
    /\ t1 # t2
    /\ Busy(t1) /\ Top(t1).pc = "fn"
    /\ Busy(t2) /\ Top(t2).op = "run_if_idle" /\ Top(t2).contended
    /\ Top(t2).pc = "done" /\ Top(t2).preLink # None

\* C4: run(fn, retry=True) whose fn raises once and then returns v returns
\* v after exactly two invocations; between them the transport is closed
\* once and opened once, and the second invocation gets the new handle.
C4_RetryReopensOnce ==
  \A f \in AllFrames :
    f.op = "run" /\ f.retry /\ f.calls >= 2 =>
      /\ f.calls = 2
      /\ f.closes = f.c0 + 1
      /\ f.opens = f.o0 + 1
      /\ f.lnk # f.lnk1
      /\ f.lnk1 \notin LiveIds
      /\ (f.pc = "fn" => f.lnk = link /\ f.lnk \in LiveIds)
      /\ (f.pc = "done" /\ f.outcome = "returned" =>
            f.result \in FnValues /\ f.postLink = f.lnk)

\* C5: fn is invoked at most twice per run / run_if_idle, at most once with
\* retry=False; without retry the exception reaches the caller after the
\* close, with retry the exception of the second invocation or of the
\* reconnect reaches the caller and nothing more is attempted.
C5_RetryBounded ==
  \A f \in AllFrames :
    f.op \in {"run", "run_if_idle"} =>
      /\ f.calls <= 2
      /\ (~f.retry => f.calls <= 1)
      /\ (f.pc = "done" /\ f.outcome = "raisedFn" =>
            IF f.retry THEN f.calls = 2
            ELSE f.calls = 1 /\ f.closes = f.c0 + 1
                 /\ f.lnk \notin {x.id : x \in f.postLive}
                 /\ ~IsConnected(f.postLink))
      /\ (f.pc = "done" /\ f.calls = 1
            /\ f.outcome \in {"raisedOpen", "raisedNoDevice"} => f.retry)

\* both endings: a second failure with retry, and a reconnect that failed
C5_Witness ==
  /\ \E f \in DoneFrames : f.retry /\ f.calls = 2 /\ f.outcome = "raisedFn"
  /\ \E f \in DoneFrames : f.calls = 1 /\ f.outcome = "raisedOpen"

\* C6: every run / run_if_idle that ends by propagating fn's exception leaves
\* the link destroyed: is_connected() is False and current_port() is "".
C6_FailureDestroysLink ==
  \A f \in DoneFrames :
    f.op \in {"run", "run_if_idle"} /\ f.outcome = "raisedFn" =>
      ~IsConnected(f.postLink) /\ CurrentPort(f.postLink, f.postPort) = ""

\* C7: the manager never has more than one transport open, the open one is
\* the one in _link on the port in _port, and a replaced transport has had
\* close() called before the new one was opened.
C7_SingleTransport ==
  LET mine == {x \in transports : x.by = "mgr"} IN
  /\ Cardinality(mine) <= 1
  /\ (link = None => mine = {})
  /\ (link # None => mine = {[id |-> link, port |-> port, by |-> "mgr"]})

\* a call replaced an open link on one port by a link on another port
C7_Witness ==
  \E f \in AllFrames :
    /\ f.preLink # None /\ f.closes >= 1 /\ f.opens >= 1
    /\ link # None /\ link # f.preLink /\ port # f.prePort

\* C8: the manager owns the only transport of the process: never two open
\* transports, and a send holds the manager's lock and writes on the
\* manager's link.
C8_ManagerOwnsOnlyTransport ==
  /\ Cardinality(transports) <= 1
  /\ \A t \in Threads : \A i \in 1..Len(stack[t]) :
       stack[t][i].op = "send" /\ stack[t][i].pc \in {"io", "box"} =>
         lockOwner = t /\ stack[t][i].lnk = link

\* C9: connect on an open link returns the current port and touches nothing
\* when no port or the open port is requested; for a different port it
\* closes the old transport, opens the requested one and returns its name,
\* which is then current_port().
C9_ConnectWhileOpen ==
  \A f \in DoneFrames :
    f.op = "connect" /\ IsConnected(f.preLink) =>
      IF ~Truthy(f.port) \/ f.port = f.prePort
        THEN /\ f.outcome = "returned" /\ f.result = f.prePort
             /\ f.opens = 0 /\ f.closes = 0
             /\ f.postLink = f.preLink /\ f.postPort = f.prePort
             /\ f.postLive = f.preLive
        ELSE /\ f.closes = 1
             /\ f.preLink \notin {x.id : x \in f.postLive}
             /\ (f.outcome = "returned" =>
                   /\ f.opens = 1
                   /\ IsConnected(f.postLink) /\ f.postLink # f.preLink
                   /\ CurrentPort(f.postLink, f.postPort) = f.result
                   /\ (Strip(f.port) # "" => f.result = Strip(f.port))
                   /\ [id |-> f.postLink, port |-> f.result, by |-> "mgr"]
                        \in f.postLive)

\* one connect found its port already open, another switched ports
C9_Witness ==
  /\ \E f \in DoneFrames :
       /\ f.op = "connect" /\ IsConnected(f.preLink)
       /\ ~Truthy(f.port) /\ f.outcome = "returned"
  /\ \E f \in DoneFrames :
       /\ f.op = "connect" /\ IsConnected(f.preLink)
       /\ Truthy(f.port) /\ f.port # f.prePort /\ f.outcome = "returned"

\* C10: disconnect always returns normally and leaves is_connected() False
\* and current_port() "", also when close() raises; on a closed manager it
\* changes nothing and calls no close().
C10_DisconnectIdempotent ==
  \A f \in DoneFrames :
    f.op = "disconnect" =>
      /\ f.outcome = "returned"
      /\ ~IsConnected(f.postLink)
      /\ CurrentPort(f.postLink, f.postPort) = ""
      /\ f.postPort = ""
      /\ (IsConnected(f.preLink) => f.closes = 1)
      /\ (~IsConnected(f.preLink) =>
            f.closes = 0 /\ f.postLive = f.preLive /\ f.postPort = f.prePort)

\* a disconnect whose close() raised, followed by a second disconnect
C10_Witness ==
  /\ \E f \in DoneFrames :
       f.op = "disconnect" /\ IsConnected(f.preLink) /\ f.closeRaised
  /\ \E f \in DoneFrames :
       f.op = "disconnect" /\ ~IsConnected(f.preLink) /\ nextId > 1

\* C11: when fn returns normally, also with a logical failure such as False,
\* run / run_if_idle have invoked it exactly once, return its value unchanged
\* and have neither closed nor reopened the transport: the link is still open
\* on the same port, on the handle fn was given.
C11_LogicalFailureNotRetried ==
  \A f \in DoneFrames :
    (f.op \in {"run", "run_if_idle"} /\ f.outcome = "returned" /\ f.calls = 1) =>
      /\ f.result = f.ret
      /\ f.closes = f.c0 /\ f.opens = f.o0
      /\ IsConnected(f.postLink) /\ f.postLink = f.lnk
      /\ [id |-> f.lnk, port |-> f.postPort, by |-> "mgr"] \in f.postLive

\* a run waiting for the lock
BlockedInRun(t) == Busy(t) /\ Top(t).op = "run" /\ Top(t).pc = "acquire"

\* that run has come back: fn was executed, or no transport could be opened
RunCompleted(t) ==
  /\ Busy(t) /\ Top(t).op = "run" /\ Top(t).pc = "done"
  /\ \/ Top(t).calls >= 1
     \/ Top(t).outcome \in {"raisedOpen", "raisedNoDevice"}

\* C12: the lock is held only by a thread that is inside an operation (it
\* is released on every exit path of run, run_if_idle, connect, disconnect),
\* a held lock is always released again, and under fair scheduling with
\* terminating fns a thread blocked in run eventually gets the lock and runs
\* to completion (fn executed, or the open failed), poller or not.
C12_RunNotStarved ==
  /\ [](\A t \in Threads : lockOwner = t => HoldsCritical(t))
  /\ [](lockOwner = NoThread <=> lockCount = 0)
  /\ \A t \in Threads : (lockOwner = t) ~> (lockOwner # t)
  /\ \A t \in Threads : BlockedInRun(t) ~> RunCompleted(t)

\* a run is blocked while the poller is inside its fn on the open link
C12_Witness ==
  /\ BlockedInRun(UserThread)
  /\ lockOwner = PollThread /\ link # None
  /\ Busy(PollThread) /\ Top(PollThread).fn = "read_levels"
  /\ Top(PollThread).pc = "fn"

\* the triple at position i starts a page: it is the first one, or its page
\* differs from the page of the triple before it
StartsPage(items, i) == i = 1 \/ items[i][1] # items[i - 1][1]

\* page-select preambles among the first i triples
Preambles(items, i) == Cardinality({j \in 1..i : StartsPage(items, j)})

\* number of payload bytes before the 5-byte unit of triple i
UnitOffset(items, i) == 1 + 2 * Preambles(items, i) + 5 * (i - 1)

PageSorted(items) ==
  \A i, j \in 1..Len(items) : i < j => items[i][1] <= items[j][1]

\* C13: the payload is the bus-address byte, then per triple in order a
\* (marker, page) preamble iff the triple starts a page, then the 5-byte
\* unit (sub with top bit set, value in 4 bytes most significant first);
\* for page-sorted input the preambles number the distinct pages and the
\* length is 1 + 2 * (distinct pages) + 5 * (triples).
C13_PayloadLayout ==
  (calc.f = "payload" /\ calc.done) =>
    LET items == calc.x
        y == calc.y
        n == Len(items)
    IN /\ y[1] = BusAddr
       /\ Len(y) = 1 + 2 * Preambles(items, n) + 5 * n
       /\ \A i \in 1..n :
            LET o == UnitOffset(items, i) IN
            /\ y[o + 1] >= 128 /\ y[o + 1] % 128 = items[i][2] % 128
            /\ y[o + 2] * 16777216 + y[o + 3] * 65536 + y[o + 4] * 256
                 + y[o + 5] = items[i][3]
            /\ StartsPage(items, i) =>
                 y[o - 1] = PageMarker /\ y[o] = items[i][1]
       /\ PageSorted(items) =>
            /\ Preambles(items, n) = Cardinality({items[i][1] : i \in 1..n})
            /\ Len(y) = 1 + 2 * Cardinality({items[i][1] : i \in 1..n}) + 5 * n

\* the payload of two triples on one page followed by one on another page
C13_Witness ==
  /\ calc.f = "payload" /\ calc.done /\ Len(calc.x) = 3
  /\ calc.x[1][1] = calc.x[2][1] /\ calc.x[2][1] # calc.x[3][1]
  /\ Len(calc.y) = 20

\* C14: no jwrb_with_log call is issued for a section whose item list is
\* empty: every COEFF write of a send handler carries at least one triple and
\* every stored COEFF payload at least one preamble and one unit; a payload
\* built from zero triples is the bus-address byte alone.
C14_NoWriteForEmptyItems ==
  /\ \A i \in 1..Len(sendLog) :
       sendLog[i].typ = TYPE_COEFF => sendLog[i].n > 0
  /\ \A k \in DOMAIN journal :
       k[1] = TYPE_COEFF => Len(journal[k].payload) >= 8
  /\ BuildPayload(<< >>) = <<BusAddr>>

\* a Crossover send that found only the PHASE OPTIMIZER section: one write,
\* the three empty sections skipped
C14_Witness ==
  /\ Len(sendLog) = 1
  /\ sendLog[1].by = "xo" /\ sendLog[1].id = REC_PHASE /\ sendLog[1].n = 1
  /\ <<TYPE_COEFF, REC_PHASE>> \in DOMAIN journal

\* C15: each (type, id) is written by one feature, so a send of one feature
\* never supersedes the latest record of another: a record of the journal
\* is only ever replaced by a record of the feature that wrote it.
C15_NoSupersede ==
  [][\A k \in DOMAIN journal : journal'[k].by = journal[k].by]_vars

\* C16 as stated: every jwrb_with_log call, program_tas3251 included, uses
\* TYPE_COEFF or TYPE_APP_STATE and an id the registry reserves for it.
C16_AllWritesRegistered ==
  \A i \in 1..Len(sendLog) :
    /\ sendLog[i].typ \in {TYPE_COEFF, TYPE_APP_STATE}
    /\ <<sendLog[i].typ, sendLog[i].id>> \in Registered

\* C16 (amended): every jwrb_with_log call of the UI send paths uses
\* TYPE_COEFF or TYPE_APP_STATE and an id the registry reserves for that
\* type; program_tas3251 writes type 0x51 with ids 0x01 and 0x02, a type the
\* registry does not define.
C16_UIWritesRegistered ==
  \A i \in 1..Len(sendLog) :
    IF sendLog[i].by = "prog"
      THEN /\ sendLog[i].typ = TYPE_PROGRAM
           /\ sendLog[i].id \in {ID_PROGRAM, ID_TUNING}
           /\ \A r \in Registered : r[1] # sendLog[i].typ
      ELSE /\ sendLog[i].typ \in {TYPE_COEFF, TYPE_APP_STATE}
           /\ <<sendLog[i].typ, sendLog[i].id>> \in Registered

\* a Mix/Gain send issued its COEFF record and its APP_STATE sidecar
C16_Witness ==
  /\ Len(sendLog) = 2
  /\ sendLog[1].by = "mixgain" /\ sendLog[1].typ = TYPE_COEFF
  /\ sendLog[1].id = REC_MIX_GAIN
  /\ sendLog[2].typ = TYPE_APP_STATE /\ sendLog[2].id = REC_STATE_MIXGAIN

\* C17: every reserved id is an 8-bit value and no two reserved names stand
\* for the same (type, id): ids are pairwise distinct within TYPE_COEFF and
\* within TYPE_APP_STATE, and the two types differ.
C17_RegistryDistinct ==
  (calc.f = "registry" /\ calc.done) =>
    /\ \A i \in 1..2 :
         /\ calc.y[i][1] \in {TYPE_COEFF, TYPE_APP_STATE}
         /\ calc.y[i][2] \in 0..255
    /\ (calc.x[1] # calc.x[2] => calc.y[1] # calc.y[2])
    /\ (calc.x[1] # calc.x[2] /\ calc.y[1][1] = calc.y[2][1] =>
          calc.y[1][2] # calc.y[2][2])
    /\ TYPE_COEFF # TYPE_APP_STATE

\* the Input Mixer id and the Mix/Gain id, neighbours in the same type
C17_Witness ==
  /\ calc.f = "registry" /\ calc.done
  /\ calc.x = <<"REC_INPUT_MIXER", "REC_MIX_GAIN">>
  /\ calc.y[1][1] = calc.y[2][1]

\* C18: truncated sidecar input gives fewer elements and no overrun: for
\* len(data) >= 4 unpack_eq_state decodes min(data[3], (len(data) - 4) div 5)
\* bands, each from its own five bytes; unpack_xo_state and
\* unpack_q97_values return only the rows and values fully present; none
\* reads an index >= len(data).
C18_TruncatedUnpack ==
  /\ (calc.f = "unpack_eq" /\ calc.done) =>
       LET data == calc.x IN
       /\ calc.y.hi < Len(data)
       /\ Len(data) >= 4 =>
            /\ Len(calc.y.eq) = Min(data[4], (Len(data) - 4) \div 5)
            /\ \A i \in 1..Len(calc.y.eq) :
                 /\ calc.y.eq[i].f0 = data[5 * i + 1] + 256 * data[5 * i + 2]
                 /\ calc.y.eq[i].q = data[5 * i + 3]
       /\ Len(data) < 4 => calc.y.eq = << >>
  /\ (calc.f = "unpack_xo" /\ calc.done) =>
       LET data == calc.x IN
       /\ calc.y.hi < Len(data)
       /\ Len(data) >= 6 =>
            /\ Len(calc.y.A) = Min(data[4], (Len(data) - 5) \div 6)
            /\ Len(calc.y.B) =
                 Min(data[5], (Len(data) - 5 - 6 * Len(calc.y.A)) \div 6)
            /\ \A i \in 1..Len(calc.y.A) :
                 calc.y.A[i].q = data[6 * i + 4]
            /\ \A i \in 1..Len(calc.y.B) :
                 calc.y.B[i].q = data[6 * (Len(calc.y.A) + i) + 4]
       /\ Len(data) < 6 => calc.y.A = << >> /\ calc.y.B = << >>
  /\ (calc.f = "unpack_q97" /\ calc.done) =>
       LET data == calc.x.data IN
       /\ calc.y.hi < Len(data)
       /\ Len(data) >= 2 =>
            /\ Len(calc.y.out) =
                 Min(Min(data[2], Len(calc.x.order)), (Len(data) - 2) \div 2)
            /\ \A i \in 1..Len(calc.y.out) :
                 calc.y.out[i][1] = calc.x.order[i]
       /\ Len(data) < 2 => calc.y.out = << >>

\* the header claims 5 bands, 2 full bands and 3 bytes of a third follow
C18_Witness ==
  /\ calc.f = "unpack_eq" /\ calc.done
  /\ Len(calc.x) = 17 /\ calc.x[4] = 5
  /\ Len(calc.y.eq) = 2 /\ calc.y.hi = 13

\* what a decoder gives back for one packed band, row or value
EqBandPacked(ent) == EqBand(EqBandBytes(ent), 0)
XoRowPacked(ent) == XoRow(XoRowBytes(ent), 0)
Q97Packed(order, values, i) ==
  LET b == LinToI16Q97(ValueOf(values, order[i]))
  IN <<order[i], I16Q97ToLin(b[1], b[2])>>

\* C19: every packed sidecar blob is self-describing: the count in the
\* header equals the number of records that follow it (5-byte bands for
\* pack_eq_state, 6-byte A and B rows before the 5-byte trailer for
\* pack_xo_state, 2-byte values for pack_q97_values) for lists of any
\* length, lengths above 255 included, so unpack(pack(x)) gives back the
\* packed elements in order.
C19_CountMatchesRecords ==
  /\ (calc.f = "pack_eq" /\ calc.done) =>
       /\ 5 * calc.y[4] = Len(calc.y) - 4
       /\ UnpackEqState(calc.y).eq =
            [i \in 1..calc.y[4] |-> EqBandPacked(calc.x.items[i])]
  /\ (calc.f = "pack_xo" /\ calc.done) =>
       /\ 6 * (calc.y[4] + calc.y[5]) = Len(calc.y) - 10
       /\ calc.y[4] = Len(calc.x.A) /\ calc.y[5] = Len(calc.x.B)
       /\ UnpackXoState(calc.y).A =
            [i \in 1..Len(calc.x.A) |-> XoRowPacked(calc.x.A[i])]
       /\ UnpackXoState(calc.y).B =
            [i \in 1..Len(calc.x.B) |-> XoRowPacked(calc.x.B[i])]
  /\ (calc.f = "pack_q97" /\ calc.done) =>
       /\ 2 * calc.y[2] = Len(calc.y) - 2
       /\ UnpackQ97Values(calc.y, calc.x.order).out =
            [i \in 1..Len(calc.x.order) |->
               Q97Packed(calc.x.order, calc.x.values, i)]

\* the text a decoder must give for a code byte
Decoded(code, texts) ==
  IF code >= Len(texts) THEN texts[1] ELSE texts[code + 1]
\* the code an encoder must give for a text
Encoded(t, texts) ==
  IF \E k \in 1..Len(texts) : texts[k] = t
    THEN CHOOSE k \in 0..(Len(texts) - 1) : texts[k + 1] = t
    ELSE 0

\* C20: on decode a type, mode or topology code outside its enumeration
\* gives the enumeration's index-0 entry, for every byte 0..255, and
\* nothing raises; on encode a text that is not in the enumeration is packed
\* as code 0.
C20_CodeFallback ==
  /\ (calc.f = "unpack_eq" /\ calc.done) =>
       \A i \in 1..Len(calc.y.eq) :
         calc.y.eq[i].type = Decoded(calc.x[5 * i], EQ_TYPE_TEXTS)
  /\ (calc.f = "unpack_xo" /\ calc.done) =>
       LET rows == calc.y.A \o calc.y.B IN
       \A i \in 1..Len(rows) :
         /\ rows[i].mode = Decoded(calc.x[6 * i], XO_MODE_TEXTS)
         /\ rows[i].topology = Decoded(calc.x[6 * i + 1], XO_TOPO_TEXTS)
  /\ (calc.f = "pack_eq" /\ calc.done) =>
       \A i \in 1..calc.y[4] :
         calc.y[5 * i] = Encoded(calc.x.items[i].type, EQ_TYPE_TEXTS)
  /\ (calc.f = "pack_xo" /\ calc.done) =>
       LET rows == calc.x.A \o calc.x.B IN
       \A i \in 1..Len(rows) :
         /\ calc.y[6 * i] = Encoded(rows[i].mode, XO_MODE_TEXTS)
         /\ calc.y[6 * i + 1] = Encoded(rows[i].topology, XO_TOPO_TEXTS)

\* the first code past the EQ types decoded to the index-0 text
C20_Witness ==
  /\ calc.f = "unpack_eq" /\ calc.done
  /\ Len(calc.y.eq) = 1
  /\ calc.x[5] = Len(EQ_TYPE_TEXTS)
  /\ calc.y.eq[1].type = EQ_TYPE_TEXTS[1]

\* the code of a domain's low and high end
LoCode(fmt) ==
  CASE fmt = "db" -> <<160>>
    [] fmt = "lin" -> <<0, 128>>
    [] OTHER -> <<0>>
HiCode(fmt) ==
  CASE fmt = "db" -> <<96>>
    [] fmt = "lin" -> <<255, 127>>
    [] fmt = "f0" -> <<65535>>
    [] OTHER -> <<255>>

C22_FsAndDelayClamp ==
  /\ (calc.f = "pack_eq" /\ calc.done) =>
       UnpackEqState(calc.y).fs = Clampf(calc.x.fs, 0, 65535)
  /\ (calc.f = "pack_xo" /\ calc.done
        /\ Len(calc.x.A) <= 255 /\ Len(calc.x.B) <= 255) =>
       LET dec == UnpackXoState(calc.y) IN
       /\ dec.fs = Clampf(calc.x.fs, 0, 65535)
       /\ dec.misc # << >>
       /\ dec.misc.delayA = Min(255, calc.x.misc.delayA)
       /\ dec.misc.delayB = Min(255, calc.x.misc.delayB)

Abs(n) == IF n < 0 THEN -n ELSE n

\* C23: inside a format's domain decode(encode(x)) is within one
\* quantization step of x: 1/128 for a linear gain in [-256, 32767/128],
\* 1/4 dB for a gain in [-24, 24] dB, where a negative gain never decodes as
\* a positive one and decodes as a negative one once it is more than half a
\* step below 0; an integer frequency in [0, 65535] goes through
\* _f0_to_u16_hz, _int_to_u16_le and _u16_to_int unchanged.
C23_RoundTripWithinStep ==
  (calc.f = "encode" /\ calc.done
     /\ Lo(calc.x[1]) <= calc.x[2] /\ calc.x[2] <= Hi(calc.x[1])) =>
    LET fmt == calc.x[1]
        x == calc.x[2]
    IN /\ fmt = "lin" =>
            Abs(I16Q97ToLin(calc.y[1], calc.y[2]) * Fine - x) <= Fine
       /\ fmt = "db" =>
            /\ Abs(I8Q25ToDb(calc.y[1]) * Fine - x) <= Fine
            /\ x < 0 => I8Q25ToDb(calc.y[1]) <= 0
            /\ 2 * x < -Fine => I8Q25ToDb(calc.y[1]) < 0
            /\ x > 0 => I8Q25ToDb(calc.y[1]) >= 0
       /\ (fmt = "f0" /\ x % Fine = 0) =>
            LET b == IntToU16LE(calc.y[1])
            IN U16ToInt(b[1], b[2]) * Fine = x

\* a gain just above -24 dB came back as -24 dB
C23_Witness ==
  /\ calc.f = "encode" /\ calc.done
  /\ calc.x = <<"db", Lo("db") + 1>>
  /\ I8Q25ToDb(calc.y[1]) = -96

\* a decoded coefficient is the sent one up to one step of 2^-n
BackWithin(dec, x, n) ==
  /\ dec.n = n
  /\ dec.s \in {x.s, x.s + 1}
  /\ x.k = 0 => dec.s = x.s

\* C24: the denominator sign convention agrees between the encode and the
\* decode path: the send path stores register A1 as the Q30 word of -a1 and
\* A2 as the Q31 word of -a2, the decode path sign-extends, rescales and
\* negates, so a1 = 0.5 comes back as +0.5; decode(encode(a)) = a up to
\* quantization for in-range a1 and a2; b0, b1, b2 are encoded and decoded
\* without negation.
C24_SignConvention ==
  (calc.f = "coeff" /\ calc.done) =>
    LET x == calc.x
        sec == calc.y.section
        dec == calc.y.dec
    IN /\ sec.A1 = QToHexTwos(Negated(x)) /\ sec.A2 = QToHexTwos(Negated(x))
       /\ sec.B0 = QToHexTwos(x) /\ sec.B1 = QToHexTwos(x)
       /\ sec.B2 = QToHexTwos(x)
       /\ BackWithin(dec.a1, x, FracBits("A1"))
       /\ BackWithin(dec.a2, x, FracBits("A2"))
       /\ BackWithin(dec.b0, x, FracBits("B0"))
       /\ BackWithin(dec.b1, x, FracBits("B1"))
       /\ BackWithin(dec.b2, x, FracBits("B2"))

\* a1 = 0.5 is 2^29 steps of 2^-30: register E0000000, decoded +0.5
C24_Witness ==
  /\ calc.f = "coeff" /\ calc.done
  /\ calc.x = [s |-> 536870912, k |-> 0]
  /\ calc.y.section.A1 = <<224, 0, 0, 0>>
  /\ calc.y.dec.a1 = [s |-> 536870912, n |-> 30]

\* the (addr, value) pairs of the register rows of a file, in file order
RECURSIVE RowPairs(_)
RowPairs(lines) ==
  IF lines = << >> THEN << >>
  ELSE (IF Head(lines).kind = "row"
          THEN <<(<<Head(lines).addr, Head(lines).val>>)>> ELSE << >>)
       \o RowPairs(Tail(lines))

\* C25: load_simple_regs skips what it cannot use: blank lines, // comment
\* lines, meta rows and lines that are no JSON give no pair and do not stop
\* the load; the list returned has one pair for each register row, in file
\* order.
C25_LoadSkipsUnusable ==
  (calc.f = "load_regs" /\ calc.done) =>
    /\ ~calc.y.raised
    /\ calc.y.pairs = RowPairs(calc.x)

\* a step stored a record under key k
Stored(k) ==
  /\ k \in DOMAIN journal'
  /\ k \notin DOMAIN journal \/ journal'[k] # journal[k]

\* C26: the APP_STATE sidecar of a feature describes what was last applied
\* to the DSP: the Input Mixer and Mix/Gain Adjust send paths write the
\* sidecar only when the COEFF write of the same send succeeded, whatever
\* journal writes fail: a send that stores a feature's sidecar has stored
\* the feature's COEFF payload of the same UI state.
C26_SidecarFollowsCoeff ==
  [][/\ Stored(<<TYPE_APP_STATE, REC_STATE_MIXER>>) =>
          /\ <<TYPE_COEFF, REC_INPUT_MIXER>> \in DOMAIN journal'
          /\ \E ui \in MixerUIStates, m \in MapsOver({"INPUT MIXER"}) :
               /\ journal'[<<TYPE_APP_STATE, REC_STATE_MIXER>>].payload
                    = MixerSide(ui)
               /\ journal'[<<TYPE_COEFF, REC_INPUT_MIXER>>].payload
                    = BuildPayload(MixerItems(m, ui))
     /\ Stored(<<TYPE_APP_STATE, REC_STATE_MIXGAIN>>) =>
          <<TYPE_COEFF, REC_MIX_GAIN>> \in DOMAIN journal']_vars

\* the step is a Load From Device that the device answered
Loads ==
  /\ calc'.f = "load" /\ calc'.x = <<"answers">>
  /\ journal' = journal /\ sendLog' = sendLog

\* a send of the feature stored a COEFF record
SentBy(by) == \E k \in DOMAIN journal : journal[k].by = by /\ k[1] = TYPE_COEFF

\* C27: Load From Device restores what was sent: a successful send of a
\* feature the loader reads (here crossover, input mixer, output crossbar)
\* writes the feature's sidecar under the (TYPE_APP_STATE, REC_STATE_*) key
\* the loader reads, so a load after it finds the record and applies the
\* values sent, up to quantization.
C27_LoadRestoresSent ==
  [][Loads =>
       /\ SentBy("xo") => "XO" \in calc'.y.applied
       /\ SentBy("xbar") => "Output Cross Bar" \in calc'.y.applied
       /\ <<TYPE_APP_STATE, REC_STATE_MIXER>> \in DOMAIN journal =>
            /\ "Input Mixer" \in calc'.y.applied
            /\ \E ui \in MixerUIStates :
                 calc'.y.mixer =
                   [i \in 1..Len(MixerOrder) |->
                      <<MixerOrder[i], RoundHalfEven(ui.lin, Fine)>>]]_vars


\* C28: with no tab handler in progress, a tab whose _connected_port is a
\* port P has the manager's link open on P
C28_TabsAgreeWithManager ==
  (TabsIdle /\ ~Busy(UIThread)) =>
    \A tab \in Tabs :
      tabs[tab].connected_port # "" =>
        link # None /\ port = tabs[tab].connected_port


\* C29: parsing the payload built from a list of (page, sub, value) triples
\* gives back that list, and no register unit starts with the page-select
\* marker
C29_PayloadParsesBack ==
  (calc.f = "payload" /\ calc.done) =>
    /\ ParsePayload(calc.y) = calc.x
    /\ \A k \in 1..Len(calc.x) : SubByte(calc.x[k][2]) # PageMarker


\* C30: unpack_xo_state takes misc only from the 5 bytes after countA +
\* countB complete rows; when fewer rows are present misc is empty
C30_MiscAfterCompleteRows ==
  (calc.f = "unpack_xo" /\ calc.done /\ Len(calc.x) >= 6) =>
    LET data == calc.x
        want == At(data, 3) + At(data, 4)
        got == Len(calc.y.A) + Len(calc.y.B)
        at == 5 + 6 * want
    IN /\ got < want => calc.y.misc = << >>
       /\ got = want =>
            calc.y.misc = IF at + 5 <= Len(data) THEN XoMisc(data, at)
                          ELSE << >>

====
